---- MODULE Spec2Model ----
(***************************************************************************)
(* Model of go-server-liveness-lab:                                        *)
(*   internal/metrics/connstate.go  ConnStateCounter (connection tracker)  *)
(*   cmd/loadgen/main.go            load generator                         *)
(*   cmd/slowloris/main.go          slow-connection simulator              *)
(* The three programs are separate processes; each has its own             *)
(* specification over the shared variable list (the variables of the other *)
(* two stay at their initial values).                                      *)
(***************************************************************************)
EXTENDS Integers, Sequences, FiniteSets, TLC

\* ------------------------------------------------------------------------
\* Bounds
\* ------------------------------------------------------------------------
\* number of TrackConnState calls issued in one behaviour
MaxCalls == 2

\* number of GetSnapshot calls issued in one behaviour
MaxSnapshots == 2

\* ------------------------------------------------------------------------
\* internal/metrics/connstate.go
\* ------------------------------------------------------------------------
VARIABLES
  counter,      \* the six atomic.Int64 fields of ConnStateCounter
  connStates,   \* map[net.Conn]http.ConnState  (Absent = no entry)
  mu,           \* sync.RWMutex: "free" or the goroutine holding the write lock
  call,         \* per goroutine: the TrackConnState call it is executing
  calls,        \* number of TrackConnState calls started so far
  snapPc,       \* GetSnapshot: 0 = not running, i = about to load field i
  snapBuf,      \* GetSnapshot: the Snapshot literal under construction
  snapCalls,    \* number of GetSnapshot calls started so far
  snaps,        \* the Snapshot values of the calls that began and returned
                \* since the last TrackConnState step, oldest first
  snapDirty,    \* a TrackConnState step ran since the running GetSnapshot began
  boundary,     \* counter values at the last instant no call held the lock
  cuts,         \* counter values at the lock-free instants of the running GetSnapshot
                \* that agree with the fields loaded so far
  serial        \* counters and map of a tracker on which the same calls run one at
                \* a time, each from start to end, in the order they took the lock

\* ------------------------------------------------------------------------
\* cmd/loadgen/main.go, cmd/slowloris/main.go and cmd/server/main.go: the
\* process under study
\* ------------------------------------------------------------------------
VARIABLES
  ctx,          \* the stop channel made in main: "open" or "closed"
  closes,       \* number of close(ctx) statements executed
  proc,         \* "running", "exit0" (main returned) or "exit2" (runtime panic)
  mainPc,       \* position of main
  sigPc,        \* signal goroutine: "off", "waiting" or "done"
  timerPc,      \* duration goroutine: "off", "sleeping" or "done"
  cfg           \* Config: what parseFlags returned

lifecycleVars == <<ctx, closes, proc, mainPc, sigPc, timerPc, cfg>>

\* cmd/loadgen/main.go
VARIABLES
  stats,        \* Stats: the four atomic.Int64 counters
  latencies,    \* Stats.latencies
  statsMu,      \* Stats.mu: "free" or "held"
  worker,       \* per worker goroutine: position, what its request met (failed),
                \* and the err and latency it got from it
  requests,     \* number of requests started so far
  reporter,     \* progressReporter: position, lastTotal and the values it read; the
                \* total read at the tick before the latest one and the sum of the
                \* windowed counts logged so far
  report        \* printResults: the values it has read and computed

loadgenVars == <<stats, latencies, statsMu, worker, requests, reporter, report>>

\* cmd/slowloris/main.go
VARIABLES
  slowStats,    \* Stats: the five atomic.Int64 counters
  slow,         \* per worker goroutine: position, headerNum and the result of performSlowloris
  peer,         \* per worker: what the far end of its connection has done
  wire,         \* per worker: what each Write call put on its open connection
  dials,        \* number of dials started so far
  slowReporter, \* statsReporter: position, and whether it has logged a line
  finalStats    \* printFinalStats: the values it printed

slowVars == <<slowStats, slow, peer, wire, dials, slowReporter, finalStats>>

\* cmd/loadgen/main.go, the latency statistics taken alone
VARIABLES
  calc          \* the last call of percentile or of the latency block of
                \* printResults: its arguments and what it returned

\* cmd/server/main.go: graceful shutdown of the demo server
VARIABLES
  done,         \* the done channel made in main: "open" or "closed"
  serve,        \* the http.Server: "off", "serving" or "closed" (Shutdown was called)
  shutdown,     \* server.Shutdown(ctx): time elapsed since the call, the error returned
  request       \* the /sleep request: position of its handler, time left to sleep,
                \* and the time left when Shutdown was called (0: none in flight)

serverVars == <<done, serve, shutdown, request>>

trackerVars == <<counter, connStates, mu, call, calls, snapPc, snapBuf, snapCalls, snaps, snapDirty, boundary, cuts, serial>>

\* what the connection tracker never touches
nonTracker == <<lifecycleVars, loadgenVars, slowVars, serverVars, calc>>

\* what the load generator never touches
nonLoadgen == <<trackerVars, slowVars, serverVars, calc>>

\* what the slow-connection simulator never touches
nonSlow == <<trackerVars, loadgenVars, serverVars, calc>>

\* what the shutdown of the demo server never touches
nonServer == <<trackerVars, loadgenVars, slowVars, calc>>

\* net.Conn identities handed to the hook
Conns == {"c1", "c2"}

\* goroutines that invoke the hook (one per served connection in net/http)
Goroutines == {"g1", "g2"}

StateNew == "StateNew"

StateActive == "StateActive"

StateIdle == "StateIdle"

StateHijacked == "StateHijacked"

StateClosed == "StateClosed"

\* http.ConnState values handled by the switch
ConnState == {StateNew, StateActive, StateIdle, StateHijacked, StateClosed}

\* a key with no entry in connStates
Absent == "absent"

\* fields of Snapshot in the order GetSnapshot loads them
SnapFields == <<"stateNew", "stateActive", "stateIdle", "stateHijacked", "totalAccepted", "totalClosed">>

\* zero value of the counters (NewConnStateCounter) and of a Snapshot
ZeroCounters == [stateNew |-> 0, stateActive |-> 0, stateIdle |-> 0, stateHijacked |-> 0, totalAccepted |-> 0, totalClosed |-> 0]

\* the per-state counter field that belongs to a live state
stateField(state) ==
  CASE state = StateNew -> "stateNew"
    [] state = StateActive -> "stateActive"
    [] state = StateIdle -> "stateIdle"
    [] state = StateHijacked -> "stateHijacked"

\* c.<field>.Add(n)
Add(cnt, field, n) == [cnt EXCEPT ![field] = @ + n]

\* decrementState whose switch has no case for StateIdle
decrementStateForgetsIdle(cnt, state) ==
  IF state \in {StateNew, StateActive, StateHijacked}
  THEN Add(cnt, stateField(state), -1)
  ELSE cnt

\* decrementState: StateClosed (and anything else) falls through the switch
decrementState(cnt, state) ==
  IF state \in {StateNew, StateActive, StateIdle, StateHijacked}
  THEN Add(cnt, stateField(state), -1)
  ELSE cnt

\* one whole call TrackConnState(conn, state) on a tracker t that no other
\* goroutine touches: the lookup, the decrement, the switch
TrackConnState(t, conn, state) ==
  LET prevState == t.connStates[conn]
      existed == prevState # Absent
      decremented == IF existed THEN decrementState(t.counter, prevState) ELSE t.counter
  IN CASE state = StateNew ->
            [counter |-> Add(Add(decremented, "stateNew", 1), "totalAccepted", 1),
             connStates |-> [t.connStates EXCEPT ![conn] = state]]
       [] state \in {StateActive, StateIdle, StateHijacked} ->
            [counter |-> Add(decremented, stateField(state), 1),
             connStates |-> [t.connStates EXCEPT ![conn] = state]]
       [] state = StateClosed ->
            [counter |-> Add(decremented, "totalClosed", 1),
             connStates |-> [t.connStates EXCEPT ![conn] = Absent]]

\* a goroutine that is not inside TrackConnState
IdleCall == [pc |-> "idle", conn |-> "c1", state |-> StateNew, existed |-> FALSE]

\* cnt has the values of snap in the first n fields of the Snapshot literal
Agrees(cnt, snap, n) == \A i \in 1..n : cnt[SnapFields[i]] = snap[SnapFields[i]]

\* a step of TrackConnState ends the quiet period of the snapshots
Disturb ==
  /\ snaps' = <<>>
  /\ snapDirty' = (snapPc # 0)

\* NewConnStateCounter
TrackerInit ==
  /\ counter = ZeroCounters
  /\ connStates = [c \in Conns |-> Absent]
  /\ mu = "free"
  /\ call = [g \in Goroutines |-> IdleCall]
  /\ calls = 0
  /\ snapPc = 0
  /\ snapBuf = ZeroCounters
  /\ snapCalls = 0
  /\ snaps = <<>>
  /\ snapDirty = FALSE
  /\ boundary = ZeroCounters
  /\ cuts = {}
  /\ serial = [counter |-> ZeroCounters, connStates |-> [c \in Conns |-> Absent]]

\* TrackConnState entered without waiting for the lock to be free
TrackConnState_LockNotExclusive(g, conn, state) ==
  /\ call[g].pc = "idle"
  /\ calls < MaxCalls
  /\ mu' = g
  /\ calls' = calls + 1
  /\ call' = [call EXCEPT ![g] = [pc |-> "switch", conn |-> conn, state |-> state,
                                  existed |-> connStates[conn] # Absent]]
  /\ counter' = IF connStates[conn] # Absent THEN decrementState(counter, connStates[conn]) ELSE counter
  /\ serial' = TrackConnState(serial, conn, state)
  /\ Disturb
  /\ UNCHANGED <<connStates, snapPc, snapBuf, snapCalls, boundary, cuts, nonTracker>>

\* TrackConnState, c.mu.Lock(), the map lookup and
\* if existed { c.decrementState(prevState) }
TrackConnState_Lock(g, conn, state) ==
  /\ call[g].pc = "idle"
  /\ calls < MaxCalls
  /\ mu = "free"
  /\ mu' = g
  /\ calls' = calls + 1
  /\ call' = [call EXCEPT ![g] = [pc |-> "switch", conn |-> conn, state |-> state,
                                  existed |-> connStates[conn] # Absent]]
  /\ counter' = IF connStates[conn] # Absent THEN decrementState(counter, connStates[conn]) ELSE counter
  /\ serial' = TrackConnState(serial, conn, state)
  /\ Disturb
  /\ UNCHANGED <<connStates, snapPc, snapBuf, snapCalls, boundary, cuts, nonTracker>>

\* TrackConnState, case http.StateNew: the second atomic add and the map store
NewTotalAccepted(g) ==
  /\ counter' = Add(counter, "totalAccepted", 1)
  /\ connStates' = [connStates EXCEPT ![call[g].conn] = call[g].state]

\* a Closed case that counts the close but leaves the entry in the map
ClosedCaseKeepsEntry(g) ==
  /\ connStates' = connStates
  /\ counter' = Add(counter, "totalClosed", 1)

\* TrackConnState, case http.StateClosed
ClosedCase(g) ==
  /\ connStates' = [connStates EXCEPT ![call[g].conn] = Absent]
  /\ counter' = Add(counter, "totalClosed", 1)

\* TrackConnState, the switch: first atomic add of the case (with the map
\* write that follows it when the case has a single add)
TrackConnState_Switch(g) ==
  /\ call[g].pc = "switch"
  /\ CASE call[g].state = StateNew ->
            /\ counter' = Add(counter, "stateNew", 1)
            /\ call' = [call EXCEPT ![g].pc = "accepted"]
            /\ UNCHANGED connStates
       [] call[g].state \in {StateActive, StateIdle, StateHijacked} ->
            /\ counter' = Add(counter, stateField(call[g].state), 1)
            /\ connStates' = [connStates EXCEPT ![call[g].conn] = call[g].state]
            /\ call' = [call EXCEPT ![g].pc = "unlock"]
       [] call[g].state = StateClosed ->
            /\ ClosedCase(g)
            /\ call' = [call EXCEPT ![g].pc = "unlock"]
  /\ Disturb
  /\ UNCHANGED <<mu, calls, snapPc, snapBuf, snapCalls, boundary, cuts, serial, nonTracker>>

\* TrackConnState, case http.StateNew: c.totalAccepted.Add(1); c.connStates[conn] = state
TrackConnState_Accepted(g) ==
  /\ call[g].pc = "accepted"
  /\ NewTotalAccepted(g)
  /\ call' = [call EXCEPT ![g].pc = "unlock"]
  /\ Disturb
  /\ UNCHANGED <<mu, calls, snapPc, snapBuf, snapCalls, boundary, cuts, serial, nonTracker>>

\* TrackConnState, c.mu.Unlock(); the logging that follows touches no state
TrackConnState_Unlock(g) ==
  /\ call[g].pc = "unlock"
  /\ mu = g
  /\ mu' = "free"
  /\ call' = [call EXCEPT ![g].pc = "idle"]
  /\ boundary' = counter
  /\ cuts' = IF snapPc # 0 /\ Agrees(counter, snapBuf, snapPc - 1) THEN cuts \cup {counter} ELSE cuts
  /\ Disturb
  /\ UNCHANGED <<counter, connStates, calls, snapPc, snapBuf, snapCalls, serial, nonTracker>>

\* GetSnapshot is entered (no lock is taken)
GetSnapshot_Begin ==
  /\ snapPc = 0
  /\ snapCalls < MaxSnapshots
  /\ snapCalls' = snapCalls + 1
  /\ snapPc' = 1
  /\ snapBuf' = ZeroCounters
  /\ snapDirty' = FALSE
  /\ cuts' = {boundary}
  /\ UNCHANGED <<counter, connStates, mu, call, calls, snaps, boundary, serial, nonTracker>>

\* the Snapshot literal once the field at snapPc has been loaded
Loaded == [snapBuf EXCEPT ![SnapFields[snapPc]] = counter[SnapFields[snapPc]]]

\* GetSnapshot returns the literal
GetSnapshot_Return ==
  /\ snapPc' = 0
  /\ snapBuf' = ZeroCounters
  /\ snaps' = IF snapDirty THEN <<>> ELSE Append(snaps, Loaded)
  /\ snapDirty' = FALSE
  /\ cuts' = {}

\* a snapshot load that also clears the counter it reads (Swap(0) for Load())
GetSnapshot_LoadAndClear ==
  /\ snapPc \in 1..6
  /\ counter' = [counter EXCEPT ![SnapFields[snapPc]] = 0]
  /\ IF snapPc = 6
     THEN GetSnapshot_Return
     ELSE /\ snapPc' = snapPc + 1
          /\ snapBuf' = Loaded
          /\ cuts' = {c \in cuts : Agrees(c, Loaded, snapPc)}
          /\ UNCHANGED <<snaps, snapDirty>>
  /\ UNCHANGED <<connStates, mu, call, calls, snapCalls, boundary, serial, nonTracker>>

\* GetSnapshot, one c.<field>.Load() of the Snapshot literal; the sixth returns
GetSnapshot_Load ==
  /\ snapPc \in 1..6
  /\ IF snapPc = 6
     THEN GetSnapshot_Return
     ELSE /\ snapPc' = snapPc + 1
          /\ snapBuf' = Loaded
          /\ cuts' = {c \in cuts : Agrees(c, Loaded, snapPc)}
          /\ UNCHANGED <<snaps, snapDirty>>
  /\ UNCHANGED <<counter, connStates, mu, call, calls, snapCalls, boundary, serial, nonTracker>>

TrackerNext ==
  \/ \E g \in Goroutines, conn \in Conns, state \in ConnState : TrackConnState_Lock(g, conn, state)
  \/ \E g \in Goroutines : TrackConnState_Switch(g)
  \/ \E g \in Goroutines : TrackConnState_Accepted(g)
  \/ \E g \in Goroutines : TrackConnState_Unlock(g)
  \/ GetSnapshot_Begin
  \/ GetSnapshot_Load

\* ------------------------------------------------------------------------
\* cmd/loadgen/main.go
\* ------------------------------------------------------------------------
\* number of requests started in one behaviour
MaxRequests == 2

\* ids of the worker goroutines (the first cfg.Concurrency of them are started)
Workers == {0, 1}

\* the configurations explored, each with the behaviour of the target: two
\* workers in a run that ends before the first 2s tick of the progress
\* reporter, one worker in a longer run, and two workers against a target
\* that answers every request with HTTP 500
LoadgenConfigs ==
  {[Concurrency |-> 2, Duration |-> "short", Target |-> "mixed"],
   [Concurrency |-> 1, Duration |-> "long", Target |-> "mixed"],
   [Concurrency |-> 2, Duration |-> "short", Target |-> "always500"]}

\* latencies a request can be measured at
Latencies == {1, 2}

\* what client.Get and the body read can produce
Responses == [transport : {"ok", "fail"}, body : {"ok", "fail"}, status : {200, 404, 500}]

\* doRequest with the status test off by one class: only above 500 is an error
doRequestAbove500(resp) ==
  IF resp.transport = "fail" THEN TRUE
  ELSE IF resp.body = "fail" THEN TRUE
  ELSE resp.status > 500

\* what a request met: client.Get failed, the read of the body failed, or the
\* server answered with a status of 400 or more
Failed(resp) == resp.transport = "fail" \/ resp.body = "fail" \/ resp.status >= 400

\* doRequest without the test of the error of io.Copy
doRequestIgnoresBody(resp) ==
  IF resp.transport = "fail" THEN TRUE
  ELSE resp.status >= 400

\* doRequest: TRUE when it returns a non-nil error
doRequest(resp) ==
  IF resp.transport = "fail" THEN TRUE
  ELSE IF resp.body = "fail" THEN TRUE
  ELSE resp.status >= 400

\* sort.Slice(latencies, less) in printResults
SortAsc(samples) == SortSeq(samples, LAMBDA a, b : a < b)

RECURSIVE SumSeq(_)
\* the summing loop of printResults
SumSeq(samples) == IF samples = <<>> THEN 0 ELSE Head(samples) + SumSeq(Tail(samples))

\* percentile rounding the rank to the nearest index instead of down
percentileNearest(sorted, p) ==
  IF Len(sorted) = 0 THEN 0 ELSE sorted[((Len(sorted) - 1) * p + 50) \div 100 + 1]

\* percentile answering an empty slice with a sentinel
percentileSentinel(sorted, p) ==
  IF Len(sorted) = 0 THEN 0 - 1 ELSE sorted[((Len(sorted) - 1) * p) \div 100 + 1]

\* percentile(sorted, p); sequences are 1-based
percentile(sorted, p) ==
  IF Len(sorted) = 0 THEN 0 ELSE sorted[((Len(sorted) - 1) * p) \div 100 + 1]

\* no call made yet
NoCalc == [fn |-> "none", samples |-> <<>>, p |-> 0, result |-> 0,
           avgLatency |-> 0, p50 |-> 0, p95 |-> 0, p99 |-> 0]

\* what the latency block leaves at its zero values
ZeroLatencyStats == [avgLatency |-> 0, p50 |-> 0, p95 |-> 0, p99 |-> 0]

\* LatencyStats without the sort
LatencyStatsUnsorted(samples) ==
  IF Len(samples) > 0
  THEN [avgLatency |-> SumSeq(samples) \div Len(samples),
        p50 |-> percentile(samples, 50),
        p95 |-> percentile(samples, 95),
        p99 |-> percentile(samples, 99)]
  ELSE ZeroLatencyStats

\* LatencyStats dividing the sum by one more than the number of samples
LatencyStatsWrongDivisor(samples) ==
  IF Len(samples) > 0
  THEN LET sorted == SortAsc(samples)
       IN [avgLatency |-> SumSeq(sorted) \div (Len(sorted) + 1),
           p50 |-> percentile(sorted, 50),
           p95 |-> percentile(sorted, 95),
           p99 |-> percentile(sorted, 99)]
  ELSE ZeroLatencyStats

\* printResults: avgLatency, p50, p95 and p99 from the copied samples
LatencyStats(samples) ==
  IF Len(samples) > 0
  THEN LET sorted == SortAsc(samples)
       IN [avgLatency |-> SumSeq(sorted) \div Len(sorted),
           p50 |-> percentile(sorted, 50),
           p95 |-> percentile(sorted, 95),
           p99 |-> percentile(sorted, 99)]
  ELSE ZeroLatencyStats

\* the zero Stats value
ZeroStats == [totalRequests |-> 0, successCount |-> 0, errorCount |-> 0, totalLatencyNs |-> 0]

\* printResults before it has read anything
NoReport == [printed |-> FALSE, quiesced |-> FALSE, total |-> 0, success |-> 0, errors |-> 0,
             samples |-> 0, avgLatency |-> 0, p50 |-> 0, p95 |-> 0, p99 |-> 0]

\* a process that has parsed its flags
LifecycleOff(c) ==
  /\ cfg = c
  /\ ctx = "open"
  /\ closes = 0
  /\ proc = "running"
  /\ mainPc = "init"
  /\ sigPc = "off"
  /\ timerPc = "off"

\* the demo server before main runs: no channel closed, no listener, no request
ServerOff ==
  /\ done = "open"
  /\ serve = "off"
  /\ shutdown = [elapsed |-> 0, err |-> FALSE]
  /\ request = [pc |-> "none", remaining |-> 0, atShutdown |-> 0]

\* package-level var stats Stats, before main runs
LoadgenOff ==
  /\ stats = ZeroStats
  /\ latencies = <<>>
  /\ statsMu = "free"
  /\ worker = [w \in Workers |-> [pc |-> "off", failed |-> FALSE, err |-> FALSE, latency |-> 0]]
  /\ requests = 0
  /\ reporter = [pc |-> "off", lastTotal |-> 0, total |-> 0, recentRequests |-> 0,
                 prevTotal |-> 0, windowed |-> 0]
  /\ report = NoReport

\* close(ctx): closing a closed channel panics and the runtime exits with status 2
CloseCtx ==
  /\ closes' = closes + 1
  /\ IF ctx = "open"
     THEN ctx' = "closed" /\ proc' = proc
     ELSE ctx' = ctx /\ proc' = "exit2"

\* main: make the channel, start the signal and duration goroutines, the
\* workers and the reporter
Loadgen_Start ==
  /\ proc = "running"
  /\ mainPc = "init"
  /\ mainPc' = "wait"
  /\ sigPc' = "waiting"
  /\ timerPc' = "sleeping"
  /\ worker' = [w \in Workers |-> IF w < cfg.Concurrency THEN [worker[w] EXCEPT !.pc = "top"] ELSE worker[w]]
  /\ reporter' = [reporter EXCEPT !.pc = "wait"]
  /\ UNCHANGED <<ctx, closes, proc, cfg, stats, latencies, statsMu, requests, report, nonLoadgen>>

\* main, signal goroutine: <-sigCh; close(ctx)
Loadgen_Signal ==
  /\ proc = "running"
  /\ sigPc = "waiting"
  /\ sigPc' = "done"
  /\ CloseCtx
  /\ UNCHANGED <<mainPc, timerPc, cfg, loadgenVars, nonLoadgen>>

\* main, duration goroutine: time.Sleep(cfg.Duration); close(ctx)
Loadgen_Timer ==
  /\ proc = "running"
  /\ timerPc = "sleeping"
  /\ timerPc' = "done"
  /\ CloseCtx
  /\ UNCHANGED <<mainPc, sigPc, cfg, loadgenVars, nonLoadgen>>

\* main that does not block on the stop channel
Loadgen_NoWait ==
  /\ proc = "running"
  /\ mainPc = "wait"
  /\ mainPc' = "grace"
  /\ UNCHANGED <<ctx, closes, proc, sigPc, timerPc, cfg, loadgenVars, nonLoadgen>>

\* main: <-ctx
Loadgen_Wait ==
  /\ proc = "running"
  /\ mainPc = "wait"
  /\ ctx = "closed"
  /\ mainPc' = "grace"
  /\ UNCHANGED <<ctx, closes, proc, sigPc, timerPc, cfg, loadgenVars, nonLoadgen>>

\* main: time.Sleep(500 * time.Millisecond) returns and printResults is called
Loadgen_Grace ==
  /\ proc = "running"
  /\ mainPc = "grace"
  /\ mainPc' = "total"
  /\ report' = [report EXCEPT !.quiesced = \A w \in Workers : worker[w].pc \in {"off", "done"}]
  /\ UNCHANGED <<ctx, closes, proc, sigPc, timerPc, cfg, stats, latencies, statsMu, worker, requests, reporter, nonLoadgen>>

\* printResults: total := stats.totalRequests.Load()
PrintResults_Total ==
  /\ proc = "running"
  /\ mainPc = "total"
  /\ mainPc' = "success"
  /\ report' = [report EXCEPT !.total = stats.totalRequests]
  /\ UNCHANGED <<ctx, closes, proc, sigPc, timerPc, cfg, stats, latencies, statsMu, worker, requests, reporter, nonLoadgen>>

\* printResults: success := stats.successCount.Load()
PrintResults_Success ==
  /\ proc = "running"
  /\ mainPc = "success"
  /\ mainPc' = "errors"
  /\ report' = [report EXCEPT !.success = stats.successCount]
  /\ UNCHANGED <<ctx, closes, proc, sigPc, timerPc, cfg, stats, latencies, statsMu, worker, requests, reporter, nonLoadgen>>

\* printResults: errors := stats.errorCount.Load()
PrintResults_Errors ==
  /\ proc = "running"
  /\ mainPc = "errors"
  /\ mainPc' = "copy"
  /\ report' = [report EXCEPT !.errors = stats.errorCount]
  /\ UNCHANGED <<ctx, closes, proc, sigPc, timerPc, cfg, stats, latencies, statsMu, worker, requests, reporter, nonLoadgen>>

\* printResults: the locked copy of stats.latencies, the sort, the average,
\* the percentiles and the printing; main then returns
PrintResults_Copy ==
  /\ proc = "running"
  /\ mainPc = "copy"
  /\ statsMu = "free"
  /\ mainPc' = "done"
  /\ proc' = "exit0"
  /\ LET computed == LatencyStats(latencies)
     IN report' = [report EXCEPT !.printed = TRUE,
                                 !.samples = Len(latencies),
                                 !.avgLatency = computed.avgLatency,
                                 !.p50 = computed.p50,
                                 !.p95 = computed.p95,
                                 !.p99 = computed.p99]
  /\ UNCHANGED <<ctx, closes, sigPc, timerPc, cfg, stats, latencies, statsMu, worker, requests, reporter, nonLoadgen>>

\* a worker back at the top of its loop (start, err and latency are per iteration)
NextIteration == [pc |-> "top", failed |-> FALSE, err |-> FALSE, latency |-> 0]

\* Worker_Check without the case <-ctx: the loop never looks at the stop channel
Worker_CheckNoStop(w) ==
  /\ proc = "running"
  /\ worker[w].pc = "top"
  /\ requests < MaxRequests
  /\ requests' = requests + 1
  /\ worker' = [worker EXCEPT ![w].pc = "request"]
  /\ UNCHANGED <<lifecycleVars, stats, latencies, statsMu, reporter, report, nonLoadgen>>

\* worker: the non-blocking select on ctx at the top of the loop
Worker_Check(w) ==
  /\ proc = "running"
  /\ worker[w].pc = "top"
  /\ IF ctx = "closed"
     THEN worker' = [worker EXCEPT ![w].pc = "done"] /\ UNCHANGED requests
     ELSE /\ requests < MaxRequests
          /\ requests' = requests + 1
          /\ worker' = [worker EXCEPT ![w].pc = "request"]
  /\ UNCHANGED <<lifecycleVars, stats, latencies, statsMu, reporter, report, nonLoadgen>>

\* worker: doRequest returns, latency is measured, stats.totalRequests.Add(1)
\* and stats.totalLatencyNs.Add(int64(latency))
Worker_Request(w, resp, latency) ==
  /\ proc = "running"
  /\ worker[w].pc = "request"
  /\ cfg.Target = "always500" => resp = [transport |-> "ok", body |-> "ok", status |-> 500]
  /\ worker' = [worker EXCEPT ![w] = [pc |-> "outcome", failed |-> Failed(resp), err |-> doRequest(resp), latency |-> latency]]
  /\ stats' = [stats EXCEPT !.totalRequests = @ + 1, !.totalLatencyNs = @ + latency]
  /\ UNCHANGED <<lifecycleVars, latencies, statsMu, requests, reporter, report, nonLoadgen>>

\* a worker that records the latency of the failed requests too
Worker_OutcomeSamplesErrors(w) ==
  /\ proc = "running"
  /\ worker[w].pc = "outcome"
  /\ stats' = IF worker[w].err THEN [stats EXCEPT !.errorCount = @ + 1]
                               ELSE [stats EXCEPT !.successCount = @ + 1]
  /\ worker' = [worker EXCEPT ![w].pc = "lock"]
  /\ UNCHANGED <<lifecycleVars, latencies, statsMu, requests, reporter, report, nonLoadgen>>

\* a worker whose success branch is not an else: a failed request is counted
\* as an error and as a success
Worker_OutcomeCountsBoth(w) ==
  /\ proc = "running"
  /\ worker[w].pc = "outcome"
  /\ stats' = IF worker[w].err THEN [stats EXCEPT !.errorCount = @ + 1, !.successCount = @ + 1]
                               ELSE [stats EXCEPT !.successCount = @ + 1]
  /\ worker' = [worker EXCEPT ![w].pc = "lock"]
  /\ UNCHANGED <<lifecycleVars, latencies, statsMu, requests, reporter, report, nonLoadgen>>

\* a worker that does not count the failed requests
Worker_OutcomeDropsErrors(w) ==
  /\ proc = "running"
  /\ worker[w].pc = "outcome"
  /\ IF worker[w].err
     THEN /\ worker' = [worker EXCEPT ![w] = NextIteration]
          /\ UNCHANGED stats
     ELSE /\ stats' = [stats EXCEPT !.successCount = @ + 1]
          /\ worker' = [worker EXCEPT ![w].pc = "lock"]
  /\ UNCHANGED <<lifecycleVars, latencies, statsMu, requests, reporter, report, nonLoadgen>>

\* worker: if err != nil { errorCount.Add(1) } else { successCount.Add(1) ... }
Worker_Outcome(w) ==
  /\ proc = "running"
  /\ worker[w].pc = "outcome"
  /\ IF worker[w].err
     THEN /\ stats' = [stats EXCEPT !.errorCount = @ + 1]
          /\ worker' = [worker EXCEPT ![w] = NextIteration]
     ELSE /\ stats' = [stats EXCEPT !.successCount = @ + 1]
          /\ worker' = [worker EXCEPT ![w].pc = "lock"]
  /\ UNCHANGED <<lifecycleVars, latencies, statsMu, requests, reporter, report, nonLoadgen>>

\* worker: stats.mu.Lock()
Worker_Lock(w) ==
  /\ proc = "running"
  /\ worker[w].pc = "lock"
  /\ statsMu = "free"
  /\ statsMu' = "held"
  /\ worker' = [worker EXCEPT ![w].pc = "append"]
  /\ UNCHANGED <<lifecycleVars, stats, latencies, requests, reporter, report, nonLoadgen>>

\* worker: stats.latencies = append(stats.latencies, latency); stats.mu.Unlock()
Worker_Append(w) ==
  /\ proc = "running"
  /\ worker[w].pc = "append"
  /\ latencies' = Append(latencies, worker[w].latency)
  /\ statsMu' = "free"
  /\ worker' = [worker EXCEPT ![w] = NextIteration]
  /\ UNCHANGED <<lifecycleVars, stats, requests, reporter, report, nonLoadgen>>

\* Reporter_Tick reading the total with Swap(0) in place of Load()
Reporter_TickSwapsTotal ==
  /\ proc = "running"
  /\ reporter.pc = "wait"
  /\ cfg.Duration = "long"
  /\ reporter' = [reporter EXCEPT !.pc = "success", !.total = stats.totalRequests]
  /\ stats' = [stats EXCEPT !.totalRequests = 0]
  /\ UNCHANGED <<lifecycleVars, latencies, statsMu, worker, requests, report, nonLoadgen>>

\* progressReporter: case <-ticker.C (the run is long enough for the ticker
\* to fire), total := stats.totalRequests.Load()
Reporter_Tick ==
  /\ proc = "running"
  /\ reporter.pc = "wait"
  /\ cfg.Duration = "long"
  /\ reporter' = [reporter EXCEPT !.pc = "success", !.total = stats.totalRequests]
  /\ UNCHANGED <<lifecycleVars, stats, latencies, statsMu, worker, requests, report, nonLoadgen>>

\* progressReporter: success := stats.successCount.Load()
Reporter_Success ==
  /\ proc = "running"
  /\ reporter.pc = "success"
  /\ reporter' = [reporter EXCEPT !.pc = "errors"]
  /\ UNCHANGED <<lifecycleVars, stats, latencies, statsMu, worker, requests, report, nonLoadgen>>

\* Reporter_Errors without lastTotal = total
Reporter_ErrorsKeepsLastTotal ==
  /\ proc = "running"
  /\ reporter.pc = "errors"
  /\ reporter' = [reporter EXCEPT !.pc = "wait",
                                  !.recentRequests = reporter.total - reporter.lastTotal,
                                  !.prevTotal = reporter.lastTotal,
                                  !.windowed = @ + (reporter.total - reporter.lastTotal),
                                  !.total = 0]
  /\ UNCHANGED <<lifecycleVars, stats, latencies, statsMu, worker, requests, report, nonLoadgen>>

\* progressReporter: errors := stats.errorCount.Load(), the rates and the log line
Reporter_Errors ==
  /\ proc = "running"
  /\ reporter.pc = "errors"
  /\ reporter' = [reporter EXCEPT !.pc = "wait",
                                  !.recentRequests = reporter.total - reporter.lastTotal,
                                  !.lastTotal = reporter.total,
                                  !.prevTotal = reporter.lastTotal,
                                  !.windowed = @ + (reporter.total - reporter.lastTotal),
                                  !.total = 0]
  /\ UNCHANGED <<lifecycleVars, stats, latencies, statsMu, worker, requests, report, nonLoadgen>>

\* progressReporter: case <-ctx: return
Reporter_Stop ==
  /\ proc = "running"
  /\ reporter.pc = "wait"
  /\ ctx = "closed"
  /\ reporter' = [reporter EXCEPT !.pc = "done"]
  /\ UNCHANGED <<lifecycleVars, stats, latencies, statsMu, worker, requests, report, nonLoadgen>>

LoadgenNext ==
  \/ Loadgen_Start
  \/ Loadgen_Signal
  \/ Loadgen_Timer
  \/ Loadgen_Wait
  \/ Loadgen_Grace
  \/ PrintResults_Total
  \/ PrintResults_Success
  \/ PrintResults_Errors
  \/ PrintResults_Copy
  \/ \E w \in Workers : Worker_Check(w)
  \/ \E w \in Workers, resp \in Responses, latency \in Latencies : Worker_Request(w, resp, latency)
  \/ \E w \in Workers : Worker_Outcome(w)
  \/ \E w \in Workers : Worker_Lock(w)
  \/ \E w \in Workers : Worker_Append(w)
  \/ Reporter_Tick
  \/ Reporter_Success
  \/ Reporter_Errors
  \/ Reporter_Stop

\* ------------------------------------------------------------------------
\* cmd/slowloris/main.go
\* ------------------------------------------------------------------------
\* number of dials started in one behaviour
MaxDials == 2

\* numbered headers sent on one connection when keep-open is on, while the
\* run has not been stopped
MaxHeaderNum == 2

\* performSlowloris: headerNum >= 10 ends a connection when keep-open is off
HeaderLimit == 10

\* ids of the worker goroutines (the first cfg.NumConns of them are started)
SlowWorkers == {0, 1}

\* the configurations explored (Delay is positive), each with the behaviour of
\* the server under attack: two connections to a server that may close them,
\* interrupted before the first stats report; one connection, kept open for a
\* duration, to a server that may answer and close; one connection that is
\* given up after HeaderLimit numbered headers; one connection to a server
\* that never answers and never closes
SlowConfigs ==
  {[NumConns |-> 2, KeepOpen |-> TRUE, Duration |-> "zero", ReportInterval |-> "long", Server |-> "closes"],
   [NumConns |-> 1, KeepOpen |-> TRUE, Duration |-> "positive", ReportInterval |-> "short", Server |-> "any"],
   [NumConns |-> 1, KeepOpen |-> FALSE, Duration |-> "zero", ReportInterval |-> "long", Server |-> "any"],
   [NumConns |-> 1, KeepOpen |-> TRUE, Duration |-> "zero", ReportInterval |-> "long", Server |-> "silent"]}

\* the connection tracker lives in the demo server, whose flags play no part
ServerConfig == [NumConns |-> 0]

\* the two bytes "\r\n"; what is written is a sequence of pieces of text, each
\* with the number formatted into it (0 when there is none)
CRLF == [text |-> "CRLF", arg |-> 0]

\* fmt.Fprintf(conn, "GET /?worker=%d HTTP/1.1\r\n", id)
RequestLine(id) == <<[text |-> "GET /?worker= HTTP/1.1", arg |-> id], CRLF>>

\* fmt.Fprintf(conn, "Host: %s\r\n", cfg.Target)
HostLine == <<[text |-> "Host: target", arg |-> 0], CRLF>>

\* []byte("User-Agent: slowloris-go/1.0\r\n")
UserAgentLine == <<[text |-> "User-Agent: slowloris-go/1.0", arg |-> 0], CRLF>>

\* a numbered header followed by the blank line that ends the header section
CustomHeaderTerminated(headerNum) == <<[text |-> "X-Slowloris-: ", arg |-> headerNum], CRLF, CRLF>>

\* fmt.Sprintf("X-Slowloris-%d: %d\r\n", headerNum, time.Now().UnixNano())
CustomHeader(headerNum) == <<[text |-> "X-Slowloris-: ", arg |-> headerNum], CRLF>>

\* the zero Stats value
ZeroSlowStats == [activeConns |-> 0, totalConns |-> 0, closedByServer |-> 0, errors |-> 0, headersSent |-> 0]

\* a worker goroutine that has not started
SlowOff == [pc |-> "off", headerNum |-> 0, closedByServer |-> FALSE]

\* package-level var stats Stats and the parsed flags, before main runs
SlowlorisOff ==
  /\ slowStats = ZeroSlowStats
  /\ slow = [w \in SlowWorkers |-> SlowOff]
  /\ peer = [w \in SlowWorkers |-> "none"]
  /\ wire = [w \in SlowWorkers |-> <<>>]
  /\ dials = 0
  /\ slowReporter = [pc |-> "off", logged |-> FALSE]
  /\ finalStats = [printed |-> FALSE, totalConns |-> 0, closedByServer |-> 0, errors |-> 0, headersSent |-> 0]

\* main: make the channel, start the signal goroutine, the duration goroutine
\* (if cfg.Duration > 0), the reporter and the workers
Slow_Start ==
  /\ proc = "running"
  /\ mainPc = "init"
  /\ mainPc' = "wait"
  /\ sigPc' = "waiting"
  /\ timerPc' = IF cfg.Duration = "positive" THEN "sleeping" ELSE "off"
  /\ slow' = [w \in SlowWorkers |-> IF w < cfg.NumConns THEN [slow[w] EXCEPT !.pc = "top"] ELSE slow[w]]
  /\ slowReporter' = [slowReporter EXCEPT !.pc = "wait"]
  /\ UNCHANGED <<ctx, closes, proc, cfg, slowStats, peer, wire, dials, finalStats, nonSlow>>

\* main, signal goroutine: <-sigCh; close(ctx)
Slow_Signal ==
  /\ proc = "running"
  /\ sigPc = "waiting"
  /\ sigPc' = "done"
  /\ CloseCtx
  /\ UNCHANGED <<mainPc, timerPc, cfg, slowVars, nonSlow>>

\* main, duration goroutine: time.Sleep(cfg.Duration); close(ctx)
Slow_Timer ==
  /\ proc = "running"
  /\ timerPc = "sleeping"
  /\ timerPc' = "done"
  /\ CloseCtx
  /\ UNCHANGED <<mainPc, sigPc, cfg, slowVars, nonSlow>>

\* main: <-ctx
Slow_Wait ==
  /\ proc = "running"
  /\ mainPc = "wait"
  /\ ctx = "closed"
  /\ mainPc' = "grace"
  /\ UNCHANGED <<ctx, closes, proc, sigPc, timerPc, cfg, slowVars, nonSlow>>

\* main: time.Sleep(500 * time.Millisecond); printFinalStats(); return
Slow_Final ==
  /\ proc = "running"
  /\ mainPc = "grace"
  /\ mainPc' = "done"
  /\ proc' = "exit0"
  /\ finalStats' = [printed |-> TRUE, totalConns |-> slowStats.totalConns,
                    closedByServer |-> slowStats.closedByServer,
                    errors |-> slowStats.errors, headersSent |-> slowStats.headersSent]
  /\ UNCHANGED <<ctx, closes, sigPc, timerPc, cfg, slowStats, slow, peer, wire, dials, slowReporter, nonSlow>>

\* performSlowloris returns: conn.Close() is next
Return(w, closedByServer) == [slow[w] EXCEPT !.pc = "close", !.closedByServer = closedByServer]

\* SlowWorker_Check without the select on ctx: the worker always dials
SlowWorker_CheckNoStop(w) ==
  /\ proc = "running"
  /\ slow[w].pc = "top"
  /\ dials < MaxDials
  /\ dials' = dials + 1
  /\ slow' = [slow EXCEPT ![w].pc = "dial"]
  /\ UNCHANGED <<lifecycleVars, slowStats, peer, wire, slowReporter, finalStats, nonSlow>>

\* slowlorisWorker: the non-blocking select on ctx, then net.DialTimeout is called
SlowWorker_Check(w) ==
  /\ proc = "running"
  /\ slow[w].pc = "top"
  /\ IF ctx = "closed"
     THEN slow' = [slow EXCEPT ![w].pc = "done"] /\ UNCHANGED dials
     ELSE /\ dials < MaxDials
          /\ dials' = dials + 1
          /\ slow' = [slow EXCEPT ![w].pc = "dial"]
  /\ UNCHANGED <<lifecycleVars, slowStats, peer, wire, slowReporter, finalStats, nonSlow>>

\* slowlorisWorker: net.DialTimeout returns; stats.errors.Add(1) or stats.totalConns.Add(1)
SlowWorker_Dial(w, ok) ==
  /\ proc = "running"
  /\ slow[w].pc = "dial"
  /\ IF ok
     THEN /\ slowStats' = [slowStats EXCEPT !.totalConns = @ + 1]
          /\ slow' = [slow EXCEPT ![w] = [pc |-> "active", headerNum |-> 0, closedByServer |-> FALSE]]
          /\ peer' = [peer EXCEPT ![w] = "silent"]
          /\ wire' = [wire EXCEPT ![w] = <<>>]
     ELSE /\ slowStats' = [slowStats EXCEPT !.errors = @ + 1]
          /\ slow' = [slow EXCEPT ![w].pc = "backoff"]
          /\ UNCHANGED <<peer, wire>>
  /\ UNCHANGED <<lifecycleVars, dials, slowReporter, finalStats, nonSlow>>

\* SlowWorker_Backoff going straight back to the dial, past the select on ctx
SlowWorker_BackoffRedials(w) ==
  /\ proc = "running"
  /\ slow[w].pc = "backoff"
  /\ dials < MaxDials
  /\ dials' = dials + 1
  /\ slow' = [slow EXCEPT ![w].pc = "dial"]
  /\ UNCHANGED <<lifecycleVars, slowStats, peer, wire, slowReporter, finalStats, nonSlow>>

\* slowlorisWorker: time.Sleep(cfg.Delay); continue
SlowWorker_Backoff(w) ==
  /\ proc = "running"
  /\ slow[w].pc = "backoff"
  /\ slow' = [slow EXCEPT ![w].pc = "top"]
  /\ UNCHANGED <<lifecycleVars, slowStats, peer, wire, dials, slowReporter, finalStats, nonSlow>>

\* slowlorisWorker: stats.activeConns.Add(1); performSlowloris is called
SlowWorker_Active(w) ==
  /\ proc = "running"
  /\ slow[w].pc = "active"
  /\ slowStats' = [slowStats EXCEPT !.activeConns = @ + 1]
  /\ slow' = [slow EXCEPT ![w].pc = "reqline"]
  /\ UNCHANGED <<lifecycleVars, peer, wire, dials, slowReporter, finalStats, nonSlow>>

\* a Write call on w's connection: it succeeds and puts the whole line on the
\* connection, or (only once the peer has closed) fails after part of it;
\* success is followed by stats.headersSent.Add(1), failure by return true
Write(w, line, ok, sent, next) ==
  /\ IF ok
     THEN /\ wire' = [wire EXCEPT ![w] = Append(@, line)]
          /\ slowStats' = [slowStats EXCEPT !.headersSent = @ + 1]
          /\ slow' = [slow EXCEPT ![w] = next]
     ELSE /\ peer[w] \in {"closed", "dataClosed"}
          /\ sent < Len(line)
          /\ wire' = [wire EXCEPT ![w] = IF sent = 0 THEN @ ELSE Append(@, SubSeq(line, 1, sent))]
          /\ slow' = [slow EXCEPT ![w] = Return(w, TRUE)]
          /\ UNCHANGED slowStats

\* performSlowloris: the request line
Perform_RequestLine(w, ok, sent) ==
  /\ proc = "running"
  /\ slow[w].pc = "reqline"
  /\ Write(w, RequestLine(w), ok, sent, [slow[w] EXCEPT !.pc = "sleep1"])
  /\ UNCHANGED <<lifecycleVars, peer, dials, slowReporter, finalStats, nonSlow>>

\* Perform_Sleep without the select on ctx: the next line is always written
Perform_SleepIgnoresStop(w) ==
  /\ proc = "running"
  /\ slow[w].pc \in {"sleep1", "sleep2"}
  /\ slow' = [slow EXCEPT ![w].pc = IF slow[w].pc = "sleep1" THEN "host" ELSE "agent"]
  /\ UNCHANGED <<lifecycleVars, slowStats, peer, wire, dials, slowReporter, finalStats, nonSlow>>

\* Perform_Sleep going from the request line straight to the User-Agent line
Perform_SleepSkipsHost(w) ==
  /\ proc = "running"
  /\ slow[w].pc \in {"sleep1", "sleep2"}
  /\ slow' = [slow EXCEPT ![w] = IF ctx = "closed" THEN Return(w, FALSE)
                                 ELSE [slow[w] EXCEPT !.pc = "agent"]]
  /\ UNCHANGED <<lifecycleVars, slowStats, peer, wire, dials, slowReporter, finalStats, nonSlow>>

\* performSlowloris: time.Sleep(cfg.Delay) and the non-blocking select on ctx,
\* before the Host line and before the User-Agent line
Perform_Sleep(w) ==
  /\ proc = "running"
  /\ slow[w].pc \in {"sleep1", "sleep2"}
  /\ slow' = [slow EXCEPT ![w] = IF ctx = "closed" THEN Return(w, FALSE)
                                 ELSE [slow[w] EXCEPT !.pc = IF slow[w].pc = "sleep1" THEN "host" ELSE "agent"]]
  /\ UNCHANGED <<lifecycleVars, slowStats, peer, wire, dials, slowReporter, finalStats, nonSlow>>

\* performSlowloris: the Host line
Perform_Host(w, ok, sent) ==
  /\ proc = "running"
  /\ slow[w].pc = "host"
  /\ Write(w, HostLine, ok, sent, [slow[w] EXCEPT !.pc = "sleep2"])
  /\ UNCHANGED <<lifecycleVars, peer, dials, slowReporter, finalStats, nonSlow>>

\* performSlowloris: the User-Agent line; headerNum := 0
Perform_UserAgent(w, ok, sent) ==
  /\ proc = "running"
  /\ slow[w].pc = "agent"
  /\ Write(w, UserAgentLine, ok, sent, [slow[w] EXCEPT !.pc = "tick", !.headerNum = 0])
  /\ UNCHANGED <<lifecycleVars, peer, dials, slowReporter, finalStats, nonSlow>>

\* Perform_TickEnter without case <-ctx: the loop waits for the delay only
Perform_TickEnterIgnoresStop(w) ==
  /\ proc = "running"
  /\ slow[w].pc = "tick"
  /\ slow' = [slow EXCEPT ![w].pc = "tickwait"]
  /\ UNCHANGED <<lifecycleVars, slowStats, peer, wire, dials, slowReporter, finalStats, nonSlow>>

\* Perform_TickEnter returning true on case <-ctx
Perform_TickEnterCancelCounts(w) ==
  /\ proc = "running"
  /\ slow[w].pc = "tick"
  /\ slow' = [slow EXCEPT ![w] = IF ctx = "closed" THEN Return(w, TRUE) ELSE [slow[w] EXCEPT !.pc = "tickwait"]]
  /\ UNCHANGED <<lifecycleVars, slowStats, peer, wire, dials, slowReporter, finalStats, nonSlow>>

\* performSlowloris: the select of the loop is entered; time.After(cfg.Delay)
\* is not ready yet, so a closed ctx is taken at once
Perform_TickEnter(w) ==
  /\ proc = "running"
  /\ slow[w].pc = "tick"
  /\ slow' = [slow EXCEPT ![w] = IF ctx = "closed" THEN Return(w, FALSE) ELSE [slow[w] EXCEPT !.pc = "tickwait"]]
  /\ UNCHANGED <<lifecycleVars, slowStats, peer, wire, dials, slowReporter, finalStats, nonSlow>>

\* performSlowloris: the select of the loop returns: case <-ctx, or the delay
\* has elapsed and the peek follows
Perform_TickWake(w, stopped) ==
  /\ proc = "running"
  /\ slow[w].pc = "tickwait"
  /\ stopped => ctx = "closed"
  /\ slow' = [slow EXCEPT ![w] = IF stopped THEN Return(w, FALSE) ELSE [slow[w] EXCEPT !.pc = "peek"]]
  /\ UNCHANGED <<lifecycleVars, slowStats, peer, wire, dials, slowReporter, finalStats, nonSlow>>

\* Perform_Peek with every error of the peek taken for a timeout
Perform_PeekEofAsTimeout(w) ==
  /\ proc = "running"
  /\ slow[w].pc = "peek"
  /\ slow' = [slow EXCEPT ![w] =
                CASE peer[w] \in {"data", "dataClosed"} -> Return(w, FALSE)
                  [] peer[w] \in {"closed", "silent"} -> [slow[w] EXCEPT !.pc = "custom"]]
  /\ UNCHANGED <<lifecycleVars, slowStats, peer, wire, dials, slowReporter, finalStats, nonSlow>>

\* Perform_Peek with the timeout test inverted: a timeout is taken for a close
Perform_PeekTimeoutAsClosed(w) ==
  /\ proc = "running"
  /\ slow[w].pc = "peek"
  /\ slow' = [slow EXCEPT ![w] =
                CASE peer[w] \in {"data", "dataClosed"} -> Return(w, FALSE)
                  [] peer[w] = "closed" -> [slow[w] EXCEPT !.pc = "custom"]
                  [] peer[w] = "silent" -> Return(w, TRUE)]
  /\ UNCHANGED <<lifecycleVars, slowStats, peer, wire, dials, slowReporter, finalStats, nonSlow>>

\* performSlowloris: SetReadDeadline(1ms), reader.Peek(1) and its three outcomes
Perform_Peek(w) ==
  /\ proc = "running"
  /\ slow[w].pc = "peek"
  /\ slow' = [slow EXCEPT ![w] =
                CASE peer[w] \in {"data", "dataClosed"} -> Return(w, FALSE)
                  [] peer[w] = "closed" -> Return(w, TRUE)
                  [] peer[w] = "silent" -> [slow[w] EXCEPT !.pc = "custom"]]
  /\ UNCHANGED <<lifecycleVars, slowStats, peer, wire, dials, slowReporter, finalStats, nonSlow>>

\* numbered headers followed on one kept-open connection: a single connection
\* to a server that stays silent is followed past HeaderLimit
HeaderBound ==
  IF cfg.NumConns = 1 /\ cfg.Server = "silent" THEN HeaderLimit + MaxHeaderNum ELSE MaxHeaderNum

\* Perform_Custom with the test of the limit off by one: headerNum > 10
Perform_CustomOffByOne(w, ok, sent) ==
  /\ proc = "running"
  /\ slow[w].pc = "custom"
  /\ (cfg.KeepOpen /\ ctx = "open") => slow[w].headerNum < HeaderBound
  /\ LET n == slow[w].headerNum + 1
     IN Write(w, CustomHeader(n), ok, sent,
              IF ~cfg.KeepOpen /\ n > HeaderLimit
              THEN [pc |-> "close", headerNum |-> n, closedByServer |-> FALSE]
              ELSE [slow[w] EXCEPT !.pc = "tick", !.headerNum = n])
  /\ UNCHANGED <<lifecycleVars, peer, dials, slowReporter, finalStats, nonSlow>>

\* Perform_Custom writing the numbered header twice in one tick
Perform_CustomTwice(w, ok, sent) ==
  /\ proc = "running"
  /\ slow[w].pc = "custom"
  /\ (cfg.KeepOpen /\ ctx = "open") => slow[w].headerNum < HeaderBound
  /\ LET n == slow[w].headerNum + 1
     IN /\ wire' = [wire EXCEPT ![w] = Append(Append(@, CustomHeader(n)), CustomHeader(n))]
        /\ slowStats' = [slowStats EXCEPT !.headersSent = @ + 2]
        /\ slow' = [slow EXCEPT ![w] = [slow[w] EXCEPT !.pc = "tick", !.headerNum = n]]
  /\ UNCHANGED <<lifecycleVars, peer, dials, slowReporter, finalStats, nonSlow>>

\* performSlowloris: headerNum++, the numbered header, and the keep-open test
Perform_Custom(w, ok, sent) ==
  /\ proc = "running"
  /\ slow[w].pc = "custom"
  /\ (cfg.KeepOpen /\ ctx = "open") => slow[w].headerNum < HeaderBound
  /\ LET n == slow[w].headerNum + 1
     IN Write(w, CustomHeader(n), ok, sent,
              IF ~cfg.KeepOpen /\ n >= HeaderLimit
              THEN [pc |-> "close", headerNum |-> n, closedByServer |-> FALSE]
              ELSE [slow[w] EXCEPT !.pc = "tick", !.headerNum = n])
  /\ UNCHANGED <<lifecycleVars, peer, dials, slowReporter, finalStats, nonSlow>>

\* SlowWorker_Close without the test of closedByServer: every connection is counted
SlowWorker_CloseAlwaysCounts(w) ==
  /\ proc = "running"
  /\ slow[w].pc = "close"
  /\ slowStats' = [slowStats EXCEPT !.activeConns = @ - 1]
  /\ peer' = [peer EXCEPT ![w] = "none"]
  /\ wire' = [wire EXCEPT ![w] = <<>>]
  /\ slow' = [slow EXCEPT ![w].pc = "count"]
  /\ UNCHANGED <<lifecycleVars, dials, slowReporter, finalStats, nonSlow>>

\* SlowWorker_Close with no stats.activeConns.Add(-1) after a connection that
\* the server closed
SlowWorker_CloseLeaksActive(w) ==
  /\ proc = "running"
  /\ slow[w].pc = "close"
  /\ slowStats' = [slowStats EXCEPT !.activeConns = IF slow[w].closedByServer THEN @ ELSE @ - 1]
  /\ peer' = [peer EXCEPT ![w] = "none"]
  /\ wire' = [wire EXCEPT ![w] = <<>>]
  /\ slow' = [slow EXCEPT ![w].pc = IF slow[w].closedByServer THEN "count" ELSE "pause"]
  /\ UNCHANGED <<lifecycleVars, dials, slowReporter, finalStats, nonSlow>>

\* slowlorisWorker: conn.Close(); stats.activeConns.Add(-1)
SlowWorker_Close(w) ==
  /\ proc = "running"
  /\ slow[w].pc = "close"
  /\ slowStats' = [slowStats EXCEPT !.activeConns = @ - 1]
  /\ peer' = [peer EXCEPT ![w] = "none"]
  /\ wire' = [wire EXCEPT ![w] = <<>>]
  /\ slow' = [slow EXCEPT ![w].pc = IF slow[w].closedByServer THEN "count" ELSE "pause"]
  /\ UNCHANGED <<lifecycleVars, dials, slowReporter, finalStats, nonSlow>>

\* SlowWorker_Count adding to activeConns what belongs to closedByServer
SlowWorker_CountWrongField(w) ==
  /\ proc = "running"
  /\ slow[w].pc = "count"
  /\ slowStats' = [slowStats EXCEPT !.activeConns = @ + 1]
  /\ slow' = [slow EXCEPT ![w].pc = "pause"]
  /\ UNCHANGED <<lifecycleVars, peer, wire, dials, slowReporter, finalStats, nonSlow>>

\* slowlorisWorker: if closedByServer { stats.closedByServer.Add(1) }
SlowWorker_Count(w) ==
  /\ proc = "running"
  /\ slow[w].pc = "count"
  /\ slowStats' = [slowStats EXCEPT !.closedByServer = @ + 1]
  /\ slow' = [slow EXCEPT ![w].pc = "pause"]
  /\ UNCHANGED <<lifecycleVars, peer, wire, dials, slowReporter, finalStats, nonSlow>>

\* slowlorisWorker: the select before reconnecting is entered;
\* time.After(100ms) is not ready yet, so a closed ctx is taken at once
SlowWorker_PauseEnter(w) ==
  /\ proc = "running"
  /\ slow[w].pc = "pause"
  /\ slow' = [slow EXCEPT ![w].pc = IF ctx = "closed" THEN "done" ELSE "pausewait"]
  /\ UNCHANGED <<lifecycleVars, slowStats, peer, wire, dials, slowReporter, finalStats, nonSlow>>

\* slowlorisWorker: the select before reconnecting returns
SlowWorker_PauseWake(w, stopped) ==
  /\ proc = "running"
  /\ slow[w].pc = "pausewait"
  /\ stopped => ctx = "closed"
  /\ slow' = [slow EXCEPT ![w].pc = IF stopped THEN "done" ELSE "top"]
  /\ UNCHANGED <<lifecycleVars, slowStats, peer, wire, dials, slowReporter, finalStats, nonSlow>>

\* the far end of w's connection sends bytes
Peer_Send(w) ==
  /\ proc = "running"
  /\ cfg.Server = "any"
  /\ peer[w] = "silent"
  /\ peer' = [peer EXCEPT ![w] = "data"]
  /\ UNCHANGED <<lifecycleVars, slowStats, slow, wire, dials, slowReporter, finalStats, nonSlow>>

\* the far end of w's connection closes it
Peer_Close(w) ==
  /\ proc = "running"
  /\ cfg.Server # "silent"
  /\ peer[w] \in {"silent", "data"}
  /\ peer' = [peer EXCEPT ![w] = IF peer[w] = "silent" THEN "closed" ELSE "dataClosed"]
  /\ UNCHANGED <<lifecycleVars, slowStats, slow, wire, dials, slowReporter, finalStats, nonSlow>>

\* statsReporter: case <-ticker.C (the run is long enough for the ticker to
\* fire), the five loads and the log line
SlowReporter_Tick ==
  /\ proc = "running"
  /\ slowReporter.pc = "wait"
  /\ cfg.ReportInterval = "short"
  /\ slowReporter' = [slowReporter EXCEPT !.logged = TRUE]
  /\ UNCHANGED <<lifecycleVars, slowStats, slow, peer, wire, dials, finalStats, nonSlow>>

\* statsReporter: case <-ctx: return
SlowReporter_Stop ==
  /\ proc = "running"
  /\ slowReporter.pc = "wait"
  /\ ctx = "closed"
  /\ slowReporter' = [slowReporter EXCEPT !.pc = "done"]
  /\ UNCHANGED <<lifecycleVars, slowStats, slow, peer, wire, dials, finalStats, nonSlow>>

\* ------------------------------------------------------------------------
\* cmd/server/main.go: main and sleepHandler, with time counted in the unit
\* of the shutdown timeout and of the sleeps; a step that is due (a timer
\* that fired, a channel that is ready) runs before time moves on
\* ------------------------------------------------------------------------
\* largest -shutdown-timeout explored
MaxShutdownTimeout == 3

\* longest sleep a request asks for
MaxSleep == 3

\* the configurations explored: parseFlags, cfg.ShutdownTimeout
DemoConfigs == [ShutdownTimeout : 0..MaxShutdownTimeout]

\* main: the signal goroutine is started; runPprofServer plays no part
Server_Start ==
  /\ proc = "running"
  /\ mainPc = "init"
  /\ mainPc' = "listen"
  /\ sigPc' = "waiting"
  /\ UNCHANGED <<ctx, closes, proc, timerPc, cfg, serverVars, nonServer>>

\* main: server.ListenAndServe() is called: it listens and serves, or returns
\* http.ErrServerClosed at once when Shutdown was called before, or fails
\* (address in use) and log.Fatal exits with status 1
Server_Listen(ok) ==
  /\ proc = "running"
  /\ mainPc = "listen"
  /\ IF serve = "closed"
     THEN mainPc' = "waitdone" /\ UNCHANGED <<proc, serve>>
     ELSE IF ok
          THEN mainPc' = "serve" /\ serve' = "serving" /\ UNCHANGED proc
          ELSE mainPc' = "fatal" /\ proc' = "exit1" /\ UNCHANGED serve
  /\ UNCHANGED <<ctx, closes, sigPc, timerPc, cfg, done, shutdown, request, nonServer>>

\* a client sends GET /sleep?ms=... on a new connection and sleepHandler
\* enters its select
Request_Arrive(ms) ==
  /\ proc = "running"
  /\ serve = "serving"
  /\ request.pc = "none"
  /\ request' = [request EXCEPT !.pc = "handling", !.remaining = ms]
  /\ UNCHANGED <<lifecycleVars, done, serve, shutdown, nonServer>>

\* sleepHandler: case <-time.After(duration): the response is written
Request_Complete ==
  /\ proc = "running"
  /\ request.pc = "handling"
  /\ request.remaining = 0
  /\ request' = [request EXCEPT !.pc = "completed"]
  /\ UNCHANGED <<lifecycleVars, done, serve, shutdown, nonServer>>

\* sleepHandler: case <-r.Context().Done(): the client went away
Request_Cancel ==
  /\ proc = "running"
  /\ request.pc = "handling"
  /\ request' = [request EXCEPT !.pc = "cancelled"]
  /\ UNCHANGED <<lifecycleVars, done, serve, shutdown, nonServer>>

\* signal goroutine: sig := <-sigCh; context.WithTimeout; server.Shutdown(ctx)
\* is called: the listener is closed and no new request is accepted
Server_Signal ==
  /\ proc = "running"
  /\ sigPc = "waiting"
  /\ sigPc' = "shutdown"
  /\ serve' = "closed"
  /\ shutdown' = [elapsed |-> 0, err |-> FALSE]
  /\ request' = [request EXCEPT !.atShutdown = IF request.pc = "handling" THEN request.remaining ELSE 0]
  /\ UNCHANGED <<ctx, closes, proc, mainPc, timerPc, cfg, done, nonServer>>

\* main: ListenAndServe returns http.ErrServerClosed once Shutdown was called
Server_ServeReturns ==
  /\ proc = "running"
  /\ mainPc = "serve"
  /\ serve = "closed"
  /\ mainPc' = "waitdone"
  /\ UNCHANGED <<ctx, closes, proc, sigPc, timerPc, cfg, serverVars, nonServer>>

\* server.Shutdown: a poll finds no connection with a request in progress
\* and Shutdown returns nil
Shutdown_ReturnsNil ==
  /\ proc = "running"
  /\ sigPc = "shutdown"
  /\ request.pc # "handling"
  /\ sigPc' = "closing"
  /\ shutdown' = [shutdown EXCEPT !.err = FALSE]
  /\ UNCHANGED <<ctx, closes, proc, mainPc, timerPc, cfg, done, serve, request, nonServer>>

\* server.Shutdown: ctx.Done() is ready in the select that follows a poll
\* and Shutdown returns context.DeadlineExceeded
Shutdown_ReturnsDeadline ==
  /\ proc = "running"
  /\ sigPc = "shutdown"
  /\ shutdown.elapsed = cfg.ShutdownTimeout
  /\ request.pc = "handling" \/ shutdown.elapsed > 0
  /\ sigPc' = "closing"
  /\ shutdown' = [shutdown EXCEPT !.err = TRUE]
  /\ UNCHANGED <<ctx, closes, proc, mainPc, timerPc, cfg, done, serve, request, nonServer>>

\* signal goroutine: the result is logged; close(done)
Server_CloseDone ==
  /\ proc = "running"
  /\ sigPc = "closing"
  /\ sigPc' = "done"
  /\ done' = "closed"
  /\ UNCHANGED <<ctx, closes, proc, mainPc, timerPc, cfg, serve, shutdown, request, nonServer>>

\* Server_MainReturns without the receive from done
Server_MainReturnsNoWait ==
  /\ proc = "running"
  /\ mainPc = "waitdone"
  /\ mainPc' = "done"
  /\ proc' = "exit0"
  /\ request' = [request EXCEPT !.pc = IF @ = "handling" THEN "interrupted" ELSE @]
  /\ UNCHANGED <<ctx, closes, sigPc, timerPc, cfg, done, serve, shutdown, nonServer>>

\* main: <-done; "server stopped"; main returns and the process ends, and
\* with it the handler of a request still in progress
Server_MainReturns ==
  /\ proc = "running"
  /\ mainPc = "waitdone"
  /\ done = "closed"
  /\ mainPc' = "done"
  /\ proc' = "exit0"
  /\ request' = [request EXCEPT !.pc = IF @ = "handling" THEN "interrupted" ELSE @]
  /\ UNCHANGED <<ctx, closes, sigPc, timerPc, cfg, done, serve, shutdown, nonServer>>

\* a step of the server is due now
ServerStepDue ==
  \/ request.pc = "handling" /\ request.remaining = 0
  \/ sigPc = "shutdown" /\ shutdown.elapsed = cfg.ShutdownTimeout
  \/ sigPc = "closing"
  \/ mainPc = "serve" /\ serve = "closed"
  \/ mainPc = "waitdone" /\ done = "closed"

\* one unit of time passes for the sleep of the handler and for the context
\* of Shutdown
Server_Tick ==
  /\ proc = "running"
  /\ ~ServerStepDue
  /\ request.pc = "handling" \/ sigPc = "shutdown"
  /\ request' = [request EXCEPT !.remaining = IF request.pc = "handling" THEN @ - 1 ELSE @]
  /\ shutdown' = [shutdown EXCEPT !.elapsed = IF sigPc = "shutdown" THEN @ + 1 ELSE @]
  /\ UNCHANGED <<lifecycleVars, done, serve, nonServer>>

ServerNext ==
  \/ Server_Start
  \/ \E ok \in BOOLEAN : Server_Listen(ok)
  \/ \E ms \in 1..MaxSleep : Request_Arrive(ms)
  \/ Request_Complete
  \/ Request_Cancel
  \/ Server_Signal
  \/ Server_ServeReturns
  \/ Shutdown_ReturnsNil
  \/ Shutdown_ReturnsDeadline
  \/ Server_CloseDone
  \/ Server_MainReturns
  \/ Server_Tick

ServerInit ==
  TrackerInit /\ LoadgenOff /\ SlowlorisOff /\ ServerOff /\ calc = NoCalc /\ \E c \in DemoConfigs : LifecycleOff(c)

LoadgenInit == TrackerInit /\ LoadgenOff /\ SlowlorisOff /\ ServerOff /\ calc = NoCalc /\ \E c \in LoadgenConfigs : LifecycleOff(c)

SlowInit == TrackerInit /\ LoadgenOff /\ SlowlorisOff /\ ServerOff /\ calc = NoCalc /\ \E c \in SlowConfigs : LifecycleOff(c)

SlowNext ==
  \/ Slow_Start
  \/ Slow_Signal
  \/ Slow_Timer
  \/ Slow_Wait
  \/ Slow_Final
  \/ \E w \in SlowWorkers : SlowWorker_Check(w)
  \/ \E w \in SlowWorkers, ok \in BOOLEAN : SlowWorker_Dial(w, ok)
  \/ \E w \in SlowWorkers : SlowWorker_Backoff(w)
  \/ \E w \in SlowWorkers : SlowWorker_Active(w)
  \/ \E w \in SlowWorkers, ok \in BOOLEAN, sent \in 0..1 : Perform_RequestLine(w, ok, sent)
  \/ \E w \in SlowWorkers : Perform_Sleep(w)
  \/ \E w \in SlowWorkers, ok \in BOOLEAN, sent \in 0..1 : Perform_Host(w, ok, sent)
  \/ \E w \in SlowWorkers, ok \in BOOLEAN, sent \in 0..1 : Perform_UserAgent(w, ok, sent)
  \/ \E w \in SlowWorkers : Perform_TickEnter(w)
  \/ \E w \in SlowWorkers, stopped \in BOOLEAN : Perform_TickWake(w, stopped)
  \/ \E w \in SlowWorkers : Perform_Peek(w)
  \/ \E w \in SlowWorkers, ok \in BOOLEAN, sent \in 0..1 : Perform_Custom(w, ok, sent)
  \/ \E w \in SlowWorkers : SlowWorker_Close(w)
  \/ \E w \in SlowWorkers : SlowWorker_Count(w)
  \/ \E w \in SlowWorkers : SlowWorker_PauseEnter(w)
  \/ \E w \in SlowWorkers, stopped \in BOOLEAN : SlowWorker_PauseWake(w, stopped)
  \/ \E w \in SlowWorkers : Peer_Send(w)
  \/ \E w \in SlowWorkers : Peer_Close(w)
  \/ SlowReporter_Tick
  \/ SlowReporter_Stop

\* ------------------------------------------------------------------------
\* cmd/loadgen/main.go: percentile and the latency block of printResults,
\* applied to sample lists of every shape
\* ------------------------------------------------------------------------
\* length of the sample lists enumerated in full
MaxSamples == 4

\* largest duration in the sample lists enumerated in full
MaxDuration == 3

\* the durations 1..n in ascending order
Ramp(n) == [i \in 1..n |-> i]

\* a list started k places further on
Rotate(samples, k) == [i \in 1..Len(samples) |-> samples[((i + k - 1) % Len(samples)) + 1]]

\* a list back to front
Reverse(samples) == [i \in 1..Len(samples) |-> samples[Len(samples) + 1 - i]]

\* Stats.latencies in the order the workers appended: every list of up to
\* MaxSamples durations, and lists of ten and of twenty-two distinct
\* durations (twenty-two is the fewest for which P95 and P99 differ) in
\* every rotation, forwards and backwards
SampleLists ==
  UNION {[1..n -> 1..MaxDuration] : n \in 0..MaxSamples}
    \cup {Rotate(Ramp(n), k) : n \in {10, 22}, k \in 0..21}
    \cup {Reverse(Rotate(Ramp(n), k)) : n \in {10, 22}, k \in 0..21}

\* the slices percentile is called with: printResults sorts before it calls
SortedSlices == {SortAsc(samples) : samples \in SampleLists}

\* the p argument of percentile
Percents == 0..100

\* one call percentile(sorted, p)
Percentile_Call(sorted, p) ==
  /\ calc = NoCalc
  /\ calc' = [NoCalc EXCEPT !.fn = "percentile", !.samples = sorted, !.p = p,
                            !.result = percentile(sorted, p)]
  /\ UNCHANGED <<trackerVars, lifecycleVars, loadgenVars, slowVars, serverVars>>

\* printResults: the latency block on a copy of Stats.latencies
PrintResults_Latency(samples) ==
  /\ calc = NoCalc
  /\ LET computed == LatencyStats(samples)
     IN calc' = [NoCalc EXCEPT !.fn = "printResults", !.samples = samples,
                               !.avgLatency = computed.avgLatency, !.p50 = computed.p50,
                               !.p95 = computed.p95, !.p99 = computed.p99]
  /\ UNCHANGED <<trackerVars, lifecycleVars, loadgenVars, slowVars, serverVars>>

StatsInit == TrackerInit /\ LifecycleOff(ServerConfig) /\ LoadgenOff /\ SlowlorisOff /\ ServerOff /\ calc = NoCalc

StatsNext ==
  \/ \E sorted \in SortedSlices, p \in Percents : Percentile_Call(sorted, p)
  \/ \E samples \in SampleLists : PrintResults_Latency(samples)

vars == <<trackerVars, lifecycleVars, loadgenVars, slowVars, serverVars, calc>>

Init == TrackerInit /\ LifecycleOff(ServerConfig) /\ LoadgenOff /\ SlowlorisOff /\ ServerOff /\ calc = NoCalc

Next == TrackerNext

Spec == Init /\ [][Next]_vars

LoadgenSpec == LoadgenInit /\ [][LoadgenNext]_vars

SlowSpec == SlowInit /\ [][SlowNext]_vars

\* the Go scheduler runs every runnable worker goroutine, every request
\* returns (http.Client.Timeout) and the mutex is handed to a waiting
\* goroutine; nothing is assumed of when the signal, the duration timer or
\* the grace sleep of main happen
WorkerFairness(w) ==
  /\ WF_vars(Worker_Check(w))
  /\ WF_vars(\E resp \in Responses, latency \in Latencies : Worker_Request(w, resp, latency))
  /\ WF_vars(Worker_Outcome(w))
  /\ SF_vars(Worker_Lock(w))
  /\ WF_vars(Worker_Append(w))

\* the runs followed to their end: two workers sharing the latency mutex in
\* a short run, and one worker under the progress reporter of a longer run
\* against a target that answers every request with HTTP 500
LoadgenFairConfigs ==
  {[Concurrency |-> 2, Duration |-> "short", Target |-> "mixed"],
   [Concurrency |-> 1, Duration |-> "long", Target |-> "always500"]}

LoadgenFairInit ==
  TrackerInit /\ LoadgenOff /\ SlowlorisOff /\ ServerOff /\ calc = NoCalc /\ \E c \in LoadgenFairConfigs : LifecycleOff(c)

LoadgenFairSpec ==
  LoadgenFairInit /\ [][LoadgenNext]_vars /\ \A w \in Workers : WorkerFairness(w)

\* every step of a worker returns: the dial has a timeout, the sleeps and
\* the selects are timed, the peek has a 1ms read deadline and a write of one
\* short line completes or fails; nothing is assumed of the server, of the
\* signal, of the duration timer or of main
SlowWorkerFairness(w) ==
  /\ WF_vars(SlowWorker_Check(w))
  /\ WF_vars(\E ok \in BOOLEAN : SlowWorker_Dial(w, ok))
  /\ WF_vars(SlowWorker_Backoff(w))
  /\ WF_vars(SlowWorker_Active(w))
  /\ WF_vars(\E ok \in BOOLEAN, sent \in 0..1 : Perform_RequestLine(w, ok, sent))
  /\ WF_vars(Perform_Sleep(w))
  /\ WF_vars(\E ok \in BOOLEAN, sent \in 0..1 : Perform_Host(w, ok, sent))
  /\ WF_vars(\E ok \in BOOLEAN, sent \in 0..1 : Perform_UserAgent(w, ok, sent))
  /\ WF_vars(Perform_TickEnter(w))
  /\ WF_vars(\E stopped \in BOOLEAN : Perform_TickWake(w, stopped))
  /\ WF_vars(Perform_Peek(w))
  /\ WF_vars(\E ok \in BOOLEAN, sent \in 0..1 : Perform_Custom(w, ok, sent))
  /\ WF_vars(SlowWorker_Close(w))
  /\ WF_vars(SlowWorker_Count(w))
  /\ WF_vars(SlowWorker_PauseEnter(w))
  /\ WF_vars(\E stopped \in BOOLEAN : SlowWorker_PauseWake(w, stopped))

\* the runs followed to their end: one connection to a server that may
\* answer and close, one connection kept open for a duration with a frequent
\* stats report, and two connections, all to a server that stays silent
SlowFairConfigs ==
  {[NumConns |-> 1, KeepOpen |-> TRUE, Duration |-> "zero", ReportInterval |-> "long", Server |-> "any"],
   [NumConns |-> 1, KeepOpen |-> TRUE, Duration |-> "positive", ReportInterval |-> "short", Server |-> "silent"],
   [NumConns |-> 2, KeepOpen |-> TRUE, Duration |-> "zero", ReportInterval |-> "long", Server |-> "silent"]}

SlowFairInit ==
  TrackerInit /\ LoadgenOff /\ SlowlorisOff /\ ServerOff /\ calc = NoCalc /\ \E c \in SlowFairConfigs : LifecycleOff(c)

SlowFairSpec ==
  SlowFairInit /\ [][SlowNext]_vars /\ \A w \in SlowWorkers : SlowWorkerFairness(w)

\* the runs in which the periodic reporters tick: a load generator run longer
\* than the 2s of its ticker, a simulator run longer than its report interval
ReporterConfigs ==
  {[Concurrency |-> 1, Duration |-> "long", Target |-> "mixed"],
   [NumConns |-> 1, KeepOpen |-> TRUE, Duration |-> "positive", ReportInterval |-> "short", Server |-> "any"]}

\* the program that runs is the load generator (its flags have Concurrency)
IsLoadgen == "Concurrency" \in DOMAIN cfg

ReportersInit ==
  TrackerInit /\ LoadgenOff /\ SlowlorisOff /\ ServerOff /\ calc = NoCalc /\ \E c \in ReporterConfigs : LifecycleOff(c)

ReportersNext ==
  \/ IsLoadgen /\ LoadgenNext
  \/ ~IsLoadgen /\ SlowNext

ReportersSpec == ReportersInit /\ [][ReportersNext]_vars

StatsSpec == StatsInit /\ [][StatsNext]_vars

ServerSpec == ServerInit /\ [][ServerNext]_vars

\* ------------------------------------------------------------------------
\* Properties of the connection tracker
\* ------------------------------------------------------------------------
\* sum of the live per-state counters
LiveSum(cnt) == cnt.stateNew + cnt.stateActive + cnt.stateIdle + cnt.stateHijacked

\* the invariant of the data model on a set of counter values
Balanced(cnt) == LiveSum(cnt) = cnt.totalAccepted - cnt.totalClosed

\* C1: at every transition boundary (no TrackConnState call holds the lock),
\* whatever calls were made, New + Active + Idle + Hijacked equals
\* TotalAccepted - TotalClosed.
C1_SumInvariant == mu = "free" => Balanced(counter)

\* C2: every Snapshot that GetSnapshot returns equals the counter values at
\* one instant between two whole transitions: the boundary in force when the
\* call began or one reached while it ran.
C2_SnapshotAtOneInstant ==
  [][(snapPc = 6 /\ snapPc' = 0) => Loaded \in cuts]_vars

\* C7: when a TrackConnState(conn, Closed) call completes, conn is not a key
\* of the mapping, whether or not it was tracked before and whatever its state.
C7_ClosedIsAbsent ==
  \A g \in Goroutines :
    (call[g].pc = "unlock" /\ call[g].state = StateClosed) => connStates[call[g].conn] = Absent

\* C7 witness: a Closed call for a tracked identity has done its work
C7_Witness ==
  \E g \in Goroutines : call[g].pc = "unlock" /\ call[g].state = StateClosed /\ call[g].existed

\* C8: only the first New observation of an identity changes TotalAccepted: a
\* New call for a tracked identity and every Active, Idle, Hijacked or Closed
\* call leave it unchanged.
C8_AcceptedOnlyFirstNew ==
  [][\A g \in Goroutines :
       (call[g].pc # "idle" /\ (call[g].state # StateNew \/ call[g].existed))
         => counter'.totalAccepted = counter.totalAccepted]_vars

\* C9: two GetSnapshot calls with no TrackConnState step from the begin of the
\* first to the return of the second return equal values, and no step of
\* GetSnapshot changes a counter or a mapping entry.
C9_SnapshotIdempotent ==
  /\ [](Len(snaps) >= 2 => snaps[Len(snaps) - 1] = snaps[Len(snaps)])
  /\ [][snapPc # snapPc' => (counter' = counter /\ connStates' = connStates)]_vars

\* C9 witness: two undisturbed snapshots of non-zero counters
C9_Witness ==
  /\ Len(snaps) >= 2
  /\ snaps[Len(snaps)].totalAccepted > 0

\* ------------------------------------------------------------------------
\* Properties of the load generator
\* ------------------------------------------------------------------------
\* C3: the stop channel is closed exactly once: no second close(ctx) is
\* executed, in whatever order the duration timer and the interrupt arrive.
C3_StopClosedOnce == closes <= 1

\* C4: once the stop signal has fired the process ends only by printing the
\* final report and returning from main with exit code 0.
C4_StopEndsInReport ==
  /\ ctx = "closed" => proc \in {"running", "exit0"}
  /\ proc = "exit0" => report.printed

\* a worker that has added to totalRequests but not yet to its outcome counter
InFlightWriter(w) == worker[w].pc = "outcome"

\* C5: whenever no worker is between its totalRequests increment and its
\* success/error increment, totalRequests = successCount + errorCount.
C5_TotalsAddUp ==
  (\A w \in Workers : ~InFlightWriter(w))
    => stats.totalRequests = stats.successCount + stats.errorCount

\* C5 witness: every worker has exited after successes and errors were counted
C5_Witness ==
  /\ cfg.Concurrency = 2
  /\ \A w \in Workers : worker[w].pc = "done"
  /\ stats.successCount > 0
  /\ stats.errorCount > 0

\* printResults has started to read the counters
ReadingReport == mainPc \in {"total", "success", "errors", "copy", "done"}

\* C6 as stated: the final report is read only after every worker has exited
\* its loop, and its totals satisfy total = success + errors.
C6_ReadAfterWorkersExit ==
  /\ ReadingReport => \A w \in Workers : worker[w].pc \in {"off", "done"}
  /\ report.printed => report.total = report.success + report.errors

\* C6 amended: the final report is read only after the stop signal has fired
\* and the grace period has elapsed; when every worker had exited its loop by
\* then, the printed totals satisfy total = success + errors and equal the
\* counters (no result is recorded after the read).
C6_ReadAfterStop ==
  /\ ReadingReport => ctx = "closed"
  /\ (report.printed /\ report.quiesced) =>
       /\ report.total = report.success + report.errors
       /\ report.total = stats.totalRequests
       /\ report.success = stats.successCount
       /\ report.errors = stats.errorCount

\* C6 witness: a report printed after all workers had exited, with requests counted
C6_Witness == cfg.Concurrency = 2 /\ report.printed /\ report.quiesced /\ report.total > 1

\* ------------------------------------------------------------------------
\* Properties of the slow-connection simulator
\* ------------------------------------------------------------------------
RECURSIVE Flatten(_)
\* the bytes on a connection: its writes one after the other
Flatten(writes) == IF writes = <<>> THEN <<>> ELSE Head(writes) \o Flatten(Tail(writes))

\* a sequence of bytes that holds an empty line: a CRLF at the very start or
\* right after another CRLF
HasBlankLine(bytes) ==
  \E i \in 1..Len(bytes) : bytes[i] = CRLF /\ (i = 1 \/ bytes[i - 1] = CRLF)

\* a single non-empty line ending in one CRLF, or the CRLF-free head of one
\* that a failed Write cut short
OneLine(write) ==
  /\ Len(write) \in 1..2
  /\ write[1] # CRLF
  /\ Len(write) = 2 => write[2] = CRLF

\* C10: on every connection each write is one non-empty line ending in one
\* CRLF, and the bytes sent never contain an empty header line.
C10_NoTerminator ==
  \A w \in SlowWorkers :
    /\ \A i \in 1..Len(wire[w]) : OneLine(wire[w][i])
    /\ ~HasBlankLine(Flatten(wire[w]))

\* C10 witness: a connection on which the three fixed lines and numbered
\* headers have been written
C10_Witness ==
  \E w \in SlowWorkers : Len(wire[w]) >= 5 /\ slow[w].headerNum >= 2

\* worker w takes the step
Stepped(w) == slow'[w] # slow[w]

\* the step sends nothing and counts nothing
Quiet(w) == wire'[w] = wire[w] /\ slowStats' = slowStats

\* C11: a peek that fails with a reset or EOF ends the connection in
\* PeerClosed (performSlowloris returns true) without another line being
\* sent; the worker then closes the connection and adds exactly one to
\* closedByServer, which no other step changes.
C11_PeekEofCountsOnce ==
  [][/\ \A w \in SlowWorkers :
          /\ (slow[w].pc = "peek" /\ peer[w] = "closed" /\ Stepped(w))
                => (slow'[w] = Return(w, TRUE) /\ Quiet(w))
          /\ (slow[w].pc = "close" /\ slow[w].closedByServer /\ Stepped(w))
                => /\ slow'[w].pc = "count"
                   /\ slowStats'.headersSent = slowStats.headersSent
                   /\ slowStats'.closedByServer = slowStats.closedByServer
          /\ (slow[w].pc = "count" /\ Stepped(w))
                => /\ slow'[w].pc = "pause"
                   /\ slowStats'.headersSent = slowStats.headersSent
                   /\ slowStats'.closedByServer = slowStats.closedByServer + 1
          /\ (slow'[w].pc = "count" /\ Stepped(w))
                => (slow[w].pc = "close" /\ slow[w].closedByServer)
     /\ slowStats'.closedByServer # slowStats.closedByServer
          => \E w \in SlowWorkers : slow[w].pc = "count" /\ Stepped(w)]_vars

\* C11 witness: a kept-open connection that had sent all its numbered headers
\* (so that no write could fail) was found closed by the peek and counted
C11_Witness ==
  \E w \in SlowWorkers :
    /\ cfg.KeepOpen
    /\ ctx = "open"
    /\ slow[w].headerNum = MaxHeaderNum
    /\ slow[w].closedByServer
    /\ slow[w].pc = "pause"
    /\ slowStats.closedByServer = 1

\* a line is written in the header loop only by the step that follows a peek
\* that timed out (the peer had neither sent nor closed)
OnlyAfterTimeout(w) ==
  /\ (slow[w].pc \in {"tick", "tickwait", "peek"} /\ Stepped(w)) => Quiet(w)
  /\ (slow'[w].pc = "custom" /\ Stepped(w)) => (slow[w].pc = "peek" /\ peer[w] = "silent")

\* C12 as stated: after a peek that timed out the worker sends exactly one
\* more header line in that tick, adds one to headersSent and stays in the
\* header loop (keep-open on); a line is sent only after such a peek.
C12_TimeoutSendsOneLine ==
  [][\A w \in SlowWorkers :
       /\ (cfg.KeepOpen /\ slow[w].pc = "custom" /\ Stepped(w))
             => /\ wire'[w] = Append(wire[w], CustomHeader(slow[w].headerNum + 1))
                /\ slowStats'.headersSent = slowStats.headersSent + 1
                /\ slow'[w].pc = "tick"
       /\ OnlyAfterTimeout(w)]_vars

\* C12 amended: after a peek that timed out the worker makes exactly one
\* write of one header line in that tick; a write that succeeds adds one to
\* headersSent and the worker stays in the header loop (keep-open on); a
\* write that fails adds nothing, puts at most an unfinished line on the
\* connection and ends it in PeerClosed; a line is written only after such a peek.
C12_TimeoutAttemptsOneLine ==
  [][\A w \in SlowWorkers :
       /\ (cfg.KeepOpen /\ slow[w].pc = "custom" /\ Stepped(w))
             => \/ /\ wire'[w] = Append(wire[w], CustomHeader(slow[w].headerNum + 1))
                   /\ slowStats' = [slowStats EXCEPT !.headersSent = @ + 1]
                   /\ slow'[w] = [slow[w] EXCEPT !.pc = "tick", !.headerNum = @ + 1]
                \/ /\ slowStats' = slowStats
                   /\ slow'[w] = Return(w, TRUE)
                   /\ \/ wire'[w] = wire[w]
                      \/ \E cut \in 1..(Len(CustomHeader(slow[w].headerNum + 1)) - 1) :
                           wire'[w] = Append(wire[w], SubSeq(CustomHeader(slow[w].headerNum + 1), 1, cut))
       /\ OnlyAfterTimeout(w)]_vars

\* C12 witness: a kept-open connection back at the top of the header loop
\* after a numbered header was written
C12_Witness ==
  \E w \in SlowWorkers :
    /\ cfg.KeepOpen
    /\ slow[w].pc = "tick"
    /\ slow[w].headerNum >= 1
    /\ wire[w][Len(wire[w])] = CustomHeader(slow[w].headerNum)

\* C13: a peek that succeeds ends the connection in SelfStopped
\* (performSlowloris returns false) without another line being sent, also
\* when the peer has closed after its data; the worker then closes the
\* connection and goes on to the pause before reconnecting without adding to
\* closedByServer.
C13_PeekDataSelfStops ==
  [][\A w \in SlowWorkers :
       /\ (slow[w].pc = "peek" /\ peer[w] \in {"data", "dataClosed"} /\ Stepped(w))
             => (slow'[w] = Return(w, FALSE) /\ Quiet(w))
       /\ (slow[w].pc = "close" /\ ~slow[w].closedByServer /\ Stepped(w))
             => /\ slow'[w].pc = "pause"
                /\ slowStats'.headersSent = slowStats.headersSent
                /\ slowStats'.closedByServer = slowStats.closedByServer
       /\ (slow[w].pc \in {"pause", "pausewait"} /\ Stepped(w))
             => (slow'[w].pc \in {"pausewait", "top", "done"} /\ Quiet(w))]_vars

\* C13 witness: with the stop channel open and keep-open on, the only
\* connection made has ended without being counted as closed by the server:
\* its peek found data
C13_Witness ==
  \E w \in SlowWorkers :
    /\ cfg.KeepOpen
    /\ ctx = "open"
    /\ slow[w].pc = "pause"
    /\ ~slow[w].closedByServer
    /\ slowStats.totalConns = 1
    /\ slowStats.closedByServer = 0

\* C14: on a connection whose peer never sends and never closes, headersSent
\* never decreases, every tick's peek times out and is followed by a write
\* that adds one to headersSent and returns to the header loop, and
\* closedByServer stays 0.
C14_SilentPeerOnlyGrows ==
  /\ [](cfg.Server = "silent" => slowStats.closedByServer = 0)
  /\ [][/\ slowStats'.headersSent >= slowStats.headersSent
        /\ \A w \in SlowWorkers :
             /\ (cfg.Server = "silent" /\ slow[w].pc = "peek" /\ Stepped(w))
                   => slow'[w].pc = "custom"
             /\ (cfg.Server = "silent" /\ slow[w].pc = "custom" /\ Stepped(w))
                   => /\ slowStats'.headersSent = slowStats.headersSent + 1
                      /\ slow'[w].pc = "tick"]_vars

\* C14 witness: the silent peer's connection has carried the three fixed lines
\* and two numbered headers
C14_Witness ==
  \E w \in SlowWorkers :
    /\ cfg.Server = "silent"
    /\ slow[w].pc = "tick"
    /\ slow[w].headerNum >= 2
    /\ slowStats.headersSent >= 5

\* worker w has finished with a connection that performSlowloris reported as
\* closed by the server: conn.Close() and both counter updates are done
HandledClosure(w) ==
  /\ slow[w].closedByServer
  /\ slow[w].pc \in {"pause", "pausewait", "top", "dial", "backoff", "done"}

\* C15: a single worker whose first connection was closed by the peer after
\* five lines (the three fixed ones and two numbered headers): once the worker
\* has detected and handled the closure, closedByServer = 1 and activeConns = 0.
C15_ClosedAtFragmentFive ==
  \A w \in SlowWorkers :
    (/\ cfg.NumConns = 1
     /\ slowStats.totalConns = 1
     /\ slowStats.headersSent = 5
     /\ HandledClosure(w))
      => (slowStats.closedByServer = 1 /\ slowStats.activeConns = 0)

\* C15 witness: the single worker's first connection was found closed after
\* its fifth line and has been handled
C15_Witness ==
  \E w \in SlowWorkers :
    /\ cfg.NumConns = 1
    /\ slowStats.totalConns = 1
    /\ slowStats.headersSent = 5
    /\ slow[w].headerNum = 2
    /\ HandledClosure(w)
    /\ slowStats.closedByServer = 1
    /\ slowStats.activeConns = 0

\* ------------------------------------------------------------------------
\* Properties of the latency statistics
\* ------------------------------------------------------------------------
\* the largest and the smallest duration of a non-empty list
MaxOf(samples) == CHOOSE m \in {samples[i] : i \in 1..Len(samples)} : \A i \in 1..Len(samples) : samples[i] <= m

MinOf(samples) == CHOOSE m \in {samples[i] : i \in 1..Len(samples)} : \A i \in 1..Len(samples) : m <= samples[i]

\* idx (0-based) is floor(x / 100)
IsFloorOfHundredth(idx, x) == 100 * idx <= x /\ x < 100 * (idx + 1)

\* C16: on a non-empty ascending slice of n durations percentile(sorted, p)
\* is the element at the 0-based index floor((n-1)*p/100), for every p in
\* 0..100; on the ten durations 1..10 it gives 5 for p = 50 and 9 for p = 95
\* and for p = 99.
C16_PercentileIndex ==
  (calc.fn = "percentile" /\ Len(calc.samples) > 0) =>
    /\ \E idx \in 0..(Len(calc.samples) - 1) :
         /\ IsFloorOfHundredth(idx, (Len(calc.samples) - 1) * calc.p)
         /\ calc.result = calc.samples[idx + 1]
    /\ calc.samples = <<1, 2, 3, 4, 5, 6, 7, 8, 9, 10>> =>
         /\ calc.p = 50 => calc.result = 5
         /\ calc.p = 95 => calc.result = 9
         /\ calc.p = 99 => calc.result = 9

\* C16 witness: the 99th percentile of the ten durations 1..10 was taken
C16_Witness ==
  /\ calc.fn = "percentile"
  /\ calc.samples = <<1, 2, 3, 4, 5, 6, 7, 8, 9, 10>>
  /\ calc.p = 99
  /\ calc.result = 9

C19_EmptyYieldsZero ==
  /\ (calc.fn = "printResults" /\ calc.samples = <<>>) =>
        (calc.avgLatency = 0 /\ calc.p50 = 0 /\ calc.p95 = 0 /\ calc.p99 = 0)
  /\ (calc.fn = "percentile" /\ calc.samples = <<>>) => calc.result = 0

\* C19 witness: percentile was called on an empty slice with p = 99
C19_Witness ==
  /\ calc.fn = "percentile"
  /\ calc.samples = <<>>
  /\ calc.p = 99

\* ------------------------------------------------------------------------
\* The load generator against a target that always answers HTTP 500
\* ------------------------------------------------------------------------
\* C20: when every request is answered with HTTP 500, no success is counted
\* and no latency sample is recorded; errorCount = totalRequests whenever no
\* worker is between the two increments, and a final report read after all
\* workers had exited shows errors = total, no success, no sample and 0 for
\* the average and the three percentiles.
C20_AllErrorsRun ==
  cfg.Target = "always500" =>
    /\ stats.successCount = 0
    /\ latencies = <<>>
    /\ (\A w \in Workers : ~InFlightWriter(w)) => stats.errorCount = stats.totalRequests
    /\ (report.printed /\ report.quiesced) =>
         /\ report.errors = report.total
         /\ report.total = stats.totalRequests
         /\ report.success = 0
         /\ report.samples = 0
         /\ report.avgLatency = 0
         /\ report.p50 = 0
         /\ report.p95 = 0
         /\ report.p99 = 0

\* C20 witness: both workers made a request against the failing target and
\* had exited before the report was read
C20_Witness ==
  /\ cfg.Target = "always500"
  /\ cfg.Concurrency = 2
  /\ report.printed
  /\ report.quiesced
  /\ report.total >= 2
  /\ report.errors = report.total

\* ------------------------------------------------------------------------
\* Cancellation of the load generator
\* ------------------------------------------------------------------------
\* worker w takes the step
WorkerStepped(w) == worker'[w] # worker[w]

\* C21: once the stop channel is closed no worker passes its loop-top check
\* again: a worker at the top of its loop exits, a worker enters doRequest
\* only from a check that saw the channel open (so that after the stop it
\* finishes at most the request whose check had passed), and a worker that
\* has exited stays so.
C21_NoRequestAfterStopCheck ==
  [][\A w \in Workers :
       /\ (ctx = "closed" /\ worker[w].pc = "top" /\ WorkerStepped(w))
             => (worker'[w].pc = "done" /\ requests' = requests /\ stats' = stats)
       /\ (worker'[w].pc = "request" /\ WorkerStepped(w))
             => (worker[w].pc = "top" /\ ctx = "open" /\ requests' = requests + 1)
       /\ (ctx = "closed" /\ worker[w].pc \in {"request", "outcome", "lock", "append"} /\ WorkerStepped(w))
             => worker'[w].pc \in {"outcome", "lock", "append", "top"}
       /\ worker[w].pc = "done" => worker'[w].pc = "done"]_vars

\* C21 witness: after the stop one worker has exited at its check while the
\* other is still in the request whose check had passed
C21_Witness ==
  /\ ctx = "closed"
  /\ \E w, v \in Workers :
       /\ worker[w].pc = "done"
       /\ worker[v].pc = "request"
       /\ stats.totalRequests >= 1

\* every worker goroutine that was started has returned from worker()
WorkersExited == \A w \in Workers : worker[w].pc \in {"off", "done"}

\* C22 as stated: once the stop channel is closed, with every request
\* returning and the workers scheduled fairly, every worker eventually exits
\* its loop (said of the runs in which the channel is closed once: a second
\* close ends the process in a panic).
C22_WorkersExit == (ctx = "closed") ~> (WorkersExited \/ closes > 1)

\* C22 amended: once the stop channel is closed every worker eventually
\* exits its loop, unless the process ends first (main returns 500ms after
\* the stop without waiting for the workers).
C22_WorkersExitOrProcessEnds == (ctx = "closed") ~> (WorkersExited \/ proc # "running")

\* C22 witness: both workers have exited after the stop while main is still
\* in its grace sleep
C22_Witness ==
  /\ cfg.Concurrency = 2
  /\ ctx = "closed"
  /\ proc = "running"
  /\ mainPc = "grace"
  /\ \A w \in Workers : worker[w].pc = "done"
  /\ stats.totalRequests >= 1

\* every started worker has returned and holds no connection
SlowWorkersReturned ==
  \A w \in SlowWorkers : slow[w].pc \in {"off", "done"} /\ peer[w] = "none"

\* C23 as stated, for the runs in which the stop broadcast is closed once:
\* once the stop signal has fired, every slow-connection worker eventually
\* returns and its connection is closed
C23_SlowWorkersReturn == (ctx = "closed") ~> (SlowWorkersReturned \/ closes > 1)

\* C23: once the stop signal has fired, every slow-connection worker
\* eventually returns with its connection closed, from whichever step it is
\* in, unless the process ends first
C23_SlowWorkersReturnOrProcessEnds == (ctx = "closed") ~> (SlowWorkersReturned \/ proc # "running")

\* C23 witness: both workers of a run had a connection with lines on it, the
\* run was stopped, and both returned with their connections closed while
\* main was still in its grace period
C23_Witness ==
  /\ cfg.NumConns = 2
  /\ ctx = "closed"
  /\ proc = "running"
  /\ SlowWorkersReturned
  /\ \A w \in SlowWorkers : slow[w].pc = "done"
  /\ slowStats.totalConns >= 2
  /\ slowStats.headersSent >= 2
  /\ slowStats.activeConns = 0

\* where a worker that has seen the stop is: unwinding (close, count), in the
\* select before reconnecting, back at the top of its loop, or returned
Unwinding == {"close", "count", "pause", "pausewait", "top", "done"}

\* the step writes no line, dials nothing and opens no connection (the peek
\* and the writes are steps from other positions than Unwinding)
NoTraffic(w) ==
  /\ wire'[w] \in {wire[w], <<>>}
  /\ slowStats'.headersSent = slowStats.headersSent
  /\ slowStats'.totalConns = slowStats.totalConns
  /\ slowStats'.errors = slowStats.errors
  /\ dials' = dials

\* C24: a worker that checks the stop signal after it has fired (at the top
\* of its loop, after a wait between the first three lines, on entering the
\* tick select or the reconnect select) starts unwinding without a write, and
\* from then on its steps never leave the unwinding positions: no further
\* write, peek or dial, no more header line and no new connection.
C24_NoTrafficAfterStopSeen ==
  [][\A w \in SlowWorkers :
       (ctx = "closed" /\ Stepped(w)) =>
         /\ slow[w].pc \in {"sleep1", "sleep2", "tick"}
              => (slow'[w].pc = "close" /\ ~slow'[w].closedByServer /\ Quiet(w) /\ dials' = dials)
         /\ slow[w].pc \in {"top", "pause"} => (slow'[w].pc = "done" /\ Quiet(w) /\ dials' = dials)
         /\ slow[w].pc \in Unwinding => (slow'[w].pc \in Unwinding /\ NoTraffic(w))
         /\ slow[w].pc = "done" => FALSE]_vars

\* C24 witness: a worker saw the stop in a wait between the first three lines
\* (one or two lines are on its connection, which nobody closed) and is about
\* to close the connection
C24_Witness ==
  \E w \in SlowWorkers :
    /\ ctx = "closed"
    /\ slow[w].pc = "close"
    /\ ~slow[w].closedByServer
    /\ Len(wire[w]) \in {1, 2}
    /\ peer[w] = "silent"

HeaderWritten(w) ==
  /\ slow[w].pc = "custom"
  /\ Stepped(w)
  /\ slowStats'.headersSent = slowStats.headersSent + 1

\* C26: with keep-open off a connection never carries more than HeaderLimit
\* numbered headers: the write of header number HeaderLimit is followed by the
\* return of performSlowloris with closedByServer false, and the close of such
\* a connection leaves the closedByServer counter alone; an earlier header
\* keeps the connection in the loop. With keep-open on, a written header
\* always keeps the connection in the loop, whatever its number.
C26_GivesUpAfterHeaderLimit ==
  [][\A w \in SlowWorkers :
       /\ ~cfg.KeepOpen => slow'[w].headerNum <= HeaderLimit
       /\ (~cfg.KeepOpen /\ HeaderWritten(w)) =>
             IF slow'[w].headerNum = HeaderLimit
             THEN slow'[w].pc = "close" /\ ~slow'[w].closedByServer
             ELSE slow'[w].pc = "tick" /\ slow'[w].headerNum = slow[w].headerNum + 1
       /\ (slow[w].pc = "close" /\ ~slow[w].closedByServer /\ Stepped(w)) =>
             (slow'[w].pc = "pause" /\ slowStats'.closedByServer = slowStats.closedByServer)
       /\ (cfg.KeepOpen /\ HeaderWritten(w)) =>
             (slow'[w].pc = "tick" /\ slow'[w].headerNum = slow[w].headerNum + 1)]_vars

\* C26 witness: with keep-open off, the only connection of the run carried the
\* three fixed lines and HeaderLimit numbered headers, was given up and
\* closed by the worker, and closedByServer is still 0
C26_Witness ==
  \E w \in SlowWorkers :
    /\ ~cfg.KeepOpen
    /\ ctx = "open"
    /\ slow[w].pc = "pause"
    /\ slow[w].headerNum = HeaderLimit
    /\ ~slow[w].closedByServer
    /\ slowStats.totalConns = 1
    /\ slowStats.headersSent = HeaderLimit + 3
    /\ slowStats.closedByServer = 0

AttemptReturns(w) == worker[w].pc = "request" /\ worker'[w] # worker[w]

\* the step of w is the Add call on errorCount or on successCount
AttemptCounted(w) == worker[w].pc = "outcome" /\ worker'[w] # worker[w]

\* C28: every attempt that returns adds exactly one to totalRequests and then
\* exactly one to errorCount (the transport call failed, the body read failed
\* or the status was >= 400) or to successCount (otherwise); no other step
\* changes the three counters, and after the count the worker is back at the
\* top of its loop or on its way there: an attempt is started once, by the
\* check at the top, and never counted twice.
C28_AttemptCountedOnce ==
  /\ [](stats.totalRequests + Cardinality({w \in Workers : worker[w].pc = "request"}) = requests)
  /\ [][/\ \A w \in Workers :
             /\ AttemptReturns(w) =>
                  /\ stats'.totalRequests = stats.totalRequests + 1
                  /\ stats'.successCount = stats.successCount
                  /\ stats'.errorCount = stats.errorCount
                  /\ worker'[w].pc = "outcome"
                  /\ requests' = requests
             /\ AttemptCounted(w) =>
                  /\ stats'.totalRequests = stats.totalRequests
                  /\ requests' = requests
                  /\ IF worker[w].failed
                     THEN /\ stats'.errorCount = stats.errorCount + 1
                          /\ stats'.successCount = stats.successCount
                          /\ worker'[w].pc = "top"
                     ELSE /\ stats'.successCount = stats.successCount + 1
                          /\ stats'.errorCount = stats.errorCount
                          /\ worker'[w].pc = "lock"
             /\ (worker'[w].pc = "request" /\ worker'[w] # worker[w])
                  => (worker[w].pc = "top" /\ requests' = requests + 1)
        /\ <<stats.totalRequests, stats.successCount, stats.errorCount>>'
             # <<stats.totalRequests, stats.successCount, stats.errorCount>>
             => \E w \in Workers : AttemptReturns(w) \/ AttemptCounted(w)]_vars

\* C28 witness: two attempts were started and both have returned and been
\* counted, one as a success and one as an error, and both workers are back
\* at the top of their loops or have returned
C28_Witness ==
  /\ cfg.Concurrency = 2
  /\ requests = 2
  /\ stats.totalRequests = 2
  /\ stats.successCount = 1
  /\ stats.errorCount = 1
  /\ \A w \in Workers : worker[w].pc \in {"top", "done"}

\* workers between successCount.Add(1) and the end of their append
Recording == {w \in Workers : worker[w].pc \in {"lock", "append"}}

\* C29: the samples appended and the workers about to append make up
\* successCount exactly (so the samples never exceed successCount and equal
\* it once no worker is in flight); at most one worker is inside the append
\* and it holds the mutex; the list changes only by the append of such a
\* worker, which adds its own latency at the end and keeps every sample
\* already there; the step that counts an error leaves the list alone.
C29_SamplesOnlyForSuccesses ==
  /\ [](/\ Len(latencies) + Cardinality(Recording) = stats.successCount
        /\ Cardinality({w \in Workers : worker[w].pc = "append"}) <= 1
        /\ (statsMu = "held") = (\E w \in Workers : worker[w].pc = "append"))
  /\ [][/\ latencies' # latencies
             => \E w \in Workers : /\ worker[w].pc = "append"
                                   /\ worker'[w].pc = "top"
                                   /\ latencies' = Append(latencies, worker[w].latency)
        /\ \A w \in Workers :
             (AttemptCounted(w) /\ worker[w].failed)
               => (latencies' = latencies /\ worker'[w].pc = "top")]_vars

\* C29 witness: both workers had a successful request; one has appended its
\* sample and the other, which had to wait for the mutex, now holds it and is
\* about to append a different latency
C29_Witness ==
  \E w \in Workers :
    /\ stats.successCount = 2
    /\ Len(latencies) = 1
    /\ worker[w].pc = "append"
    /\ statsMu = "held"
    /\ worker[w].latency # latencies[1]

\* workers between totalRequests.Add(1) and the Add call on errorCount or
\* successCount
Uncounted == {w \in Workers : worker[w].pc = "outcome"}

\* C30: at every instant totalRequests exceeds successCount + errorCount by
\* the number of workers that are between their totalRequests increment and
\* their outcome increment: the difference is never negative, never more
\* than the number of workers, and it is zero whenever no worker is there.
C30_TotalCoversOutcomes ==
  /\ stats.totalRequests - (stats.successCount + stats.errorCount) = Cardinality(Uncounted)
  /\ stats.totalRequests >= stats.successCount + stats.errorCount
  /\ stats.totalRequests - (stats.successCount + stats.errorCount) <= cfg.Concurrency
  /\ Cardinality(Uncounted) <= cfg.Concurrency

\* C30 witness: both workers of a run have added their request to
\* totalRequests and neither has counted its outcome yet, one request having
\* failed and the other not: the counters disagree by the number of workers
C30_Witness ==
  /\ cfg.Concurrency = 2
  /\ stats.totalRequests = 2
  /\ stats.successCount + stats.errorCount = 0
  /\ Uncounted = Workers
  /\ worker[0].err # worker[1].err

\* C31: the calls are serialized by the lock: at most one goroutine is inside
\* a call, and it is the one that holds the lock; whenever no call holds the
\* lock, the counters and the mapping are those of the same calls applied one
\* at a time, each from start to end, in the order they took the lock: no
\* update is lost.
C31_CallsSerialized ==
  /\ \A g, h \in Goroutines : (call[g].pc # "idle" /\ call[h].pc # "idle") => g = h
  /\ \A g \in Goroutines : call[g].pc # "idle" => mu = g
  /\ mu = "free" => (counter = serial.counter /\ connStates = serial.connStates)

\* C31 witness: two goroutines have each completed a call, for different
\* identities, both are tracked and nobody holds the lock
C31_Witness ==
  /\ mu = "free"
  /\ calls = 2
  /\ call["g1"].pc = "idle" /\ call["g1"].conn = "c1"
  /\ call["g2"].pc = "idle" /\ call["g2"].conn = "c2"
  /\ connStates["c1"] = StateActive
  /\ connStates["c2"] = StateNew
  /\ counter.stateActive = 1
  /\ counter.stateNew = 1

\* C32: an identity enters the mapping only by a New transition and leaves it
\* only by a Closed transition; an Active, Idle or Hijacked transition for an
\* identity that is not tracked creates no entry.
C32_EntriesOnlyByNewAndClosed ==
  [][\A c \in Conns :
       /\ (connStates[c] = Absent /\ connStates'[c] # Absent)
            => \E g \in Goroutines : mu = g /\ call[g].conn = c /\ call[g].state = StateNew
       /\ (connStates[c] # Absent /\ connStates'[c] = Absent)
            => \E g \in Goroutines : mu = g /\ call[g].conn = c /\ call[g].state = StateClosed]_vars

\* the identities the mapping records in a state
RecordedIn(state) == {c \in Conns : connStates[c] = state}

\* C36: after every completed call (nobody holds the lock) each per-state
\* counter equals the number of mapping entries recorded in that state, so
\* none is negative and their sum is the size of the mapping.
C36_CountersMatchMapping ==
  mu = "free" =>
    /\ \A state \in {StateNew, StateActive, StateIdle, StateHijacked} :
         /\ counter[stateField(state)] = Cardinality(RecordedIn(state))
         /\ counter[stateField(state)] >= 0
    /\ LiveSum(counter) = Cardinality({c \in Conns : connStates[c] # Absent})

\* C36 witness: an identity recorded as Idle has moved on to Active, the call
\* is complete, and the Idle counter is back at 0
C36_Witness ==
  /\ mu = "free"
  /\ \E g \in Goroutines :
       /\ call[g].pc = "idle" /\ call[g].existed /\ call[g].state = StateActive
       /\ connStates[call[g].conn] = StateActive
       /\ \E h \in Goroutines : call[h].state = StateIdle /\ call[h].conn = call[g].conn
  /\ RecordedIn(StateIdle) = {}
  /\ counter.stateActive = 1
  /\ counter.stateIdle = 0

\* the i-th line performSlowloris writes on worker w's connection
LineInOrder(w, i) ==
  CASE i = 1 -> RequestLine(w)
    [] i = 2 -> HostLine
    [] i = 3 -> UserAgentLine
    [] OTHER -> CustomHeader(i - 3)

\* what is on w's connection is the first lines of that order, whole, except
\* that a write that failed may have left a proper part of the next one
LinesInOrder(w) ==
  \A i \in 1..Len(wire[w]) :
    \/ wire[w][i] = LineInOrder(w, i)
    \/ /\ i = Len(wire[w])
       /\ slow[w].pc = "close" /\ slow[w].closedByServer
       /\ \E cut \in 1..(Len(LineInOrder(w, i)) - 1) : wire[w][i] = SubSeq(LineInOrder(w, i), 1, cut)

\* w's Write call returns without error in this step: a whole line is added
WroteLine(w) ==
  /\ Len(wire'[w]) = Len(wire[w]) + 1
  /\ wire'[w][Len(wire'[w])] = LineInOrder(w, Len(wire'[w]))
  /\ slow'[w].pc # "close" \/ ~slow'[w].closedByServer

\* performSlowloris is running on w's connection
Performing(w) ==
  slow[w].pc \in {"reqline", "sleep1", "host", "sleep2", "agent", "tick", "tickwait", "peek", "custom"}

\* C33: on every connection the lines go out in a fixed order (request line,
\* Host, User-Agent, then the numbered headers 1, 2, 3, ... with none skipped
\* or repeated); every successful write adds exactly one to headersSent and
\* nothing else does; a connection ends (closed by the peer or stopped by the
\* worker) once: performSlowloris returns from a running connection, the
\* outcome is fixed and nothing more is written until conn.Close().
C33_LinesInOrderEndOnce ==
  /\ [](\A w \in SlowWorkers : LinesInOrder(w))
  /\ [][/\ \A w \in SlowWorkers :
             /\ WroteLine(w) => slowStats'.headersSent = slowStats.headersSent + 1
             /\ (slow'[w].pc = "close" /\ slow[w].pc # "close") => Performing(w)
             /\ slow[w].pc = "close"
                  => /\ wire'[w] \in {wire[w], <<>>}
                     /\ slow'[w].pc = "close" => slow'[w] = slow[w]
                     /\ slow'[w].pc # "close" =>
                          (peer'[w] = "none" /\ slowStats'.activeConns = slowStats.activeConns - 1)
        /\ slowStats'.headersSent # slowStats.headersSent
             => /\ slowStats'.headersSent = slowStats.headersSent + 1
                /\ \E w \in SlowWorkers : WroteLine(w)]_vars

\* C33 witness: a connection has ended after the three fixed lines and two
\* numbered headers, all counted
C33_Witness ==
  \E w \in SlowWorkers :
    /\ slow[w].pc = "close"
    /\ Len(wire[w]) >= 5
    /\ wire[w][4] = CustomHeader(1)
    /\ wire[w][5] = CustomHeader(2)
    /\ slowStats.headersSent >= 5

\* a tick of progressReporter is taken: the select picks ticker.C
ProgressTick == reporter.pc = "wait" /\ reporter'.pc = "success"

\* a step of either reporter
ReporterStepped == reporter' # reporter \/ slowReporter' # slowReporter

\* a reporter step changes no counter and no latency sample
PureConsumers == ReporterStepped => (stats' = stats /\ latencies' = latencies /\ slowStats' = slowStats)

\* C34 as stated: the reporters change no counter and no sample, and no tick
\* is taken once the stop signal has fired.
C34_PureAndNoTickAfterStop ==
  [][/\ PureConsumers
     /\ ctx = "closed" => ~ProgressTick
     /\ ctx = "closed" => ~(slowReporter.pc = "wait" /\ slowReporter' # slowReporter /\ slowReporter'.pc = "wait")]_vars

\* C34 amended: the reporters change no counter and no sample; a reporter
\* returns only on the stop signal, and once it has returned it never ticks
\* again (a tick that is due when the signal fires may still be taken first).
C34_PureAndNoTickAfterReturn ==
  [][/\ PureConsumers
     /\ (reporter'.pc = "done" /\ reporter.pc # "done") => (ctx = "closed" /\ reporter.pc = "wait")
     /\ (slowReporter'.pc = "done" /\ slowReporter.pc # "done") => (ctx = "closed" /\ slowReporter.pc = "wait")
     /\ reporter.pc = "done" => reporter' = reporter
     /\ slowReporter.pc = "done" => slowReporter' = slowReporter]_vars

\* C34 witness: the progress reporter has ticked with requests counted, has
\* returned on the stop signal, and the counters still hold what it read
C34_Witness ==
  /\ reporter.pc = "done"
  /\ reporter.lastTotal > 0
  /\ stats.totalRequests >= reporter.lastTotal
  /\ latencies # <<>>

\* C35: the windowed request count of a tick is the total read at that tick
\* minus the total read at the tick before (zero before the first tick); it
\* is never negative, and the windowed counts of the ticks so far sum to the
\* total read at the latest tick, which the counter has reached.
C35_WindowedCounts ==
  /\ reporter.recentRequests = reporter.lastTotal - reporter.prevTotal
  /\ reporter.recentRequests >= 0
  /\ reporter.windowed = reporter.lastTotal
  /\ reporter.lastTotal <= stats.totalRequests
  /\ reporter.pc \in {"success", "errors"} => reporter.total >= reporter.lastTotal

\* C35 witness: a second tick has been logged with a window of its own
C35_Witness ==
  /\ reporter.pc = "wait"
  /\ reporter.prevTotal > 0
  /\ reporter.recentRequests > 0
  /\ reporter.windowed = reporter.prevTotal + reporter.recentRequests

\* w holds a connection it has counted as active: from stats.activeConns.Add(1)
\* to the stats.activeConns.Add(-1) that follows conn.Close()
Established(w) == Performing(w) \/ slow[w].pc = "close"

\* every worker goroutine that was started has returned
AllSlowWorkersDone == \A w \in SlowWorkers : w < cfg.NumConns => slow[w].pc = "done"

FailedWrite(w) ==
  /\ slow[w].pc \in {"reqline", "host", "agent", "custom"}
  /\ Stepped(w)
  /\ wire'[w] # Append(wire[w], LineInOrder(w, Len(wire[w]) + 1))

\* w's peek returns an error that is not a timeout in this step
PeekFailed(w) == slow[w].pc = "peek" /\ peer[w] = "closed" /\ Stepped(w)

\* C39: closedByServer is incremented at most once per established
\* connection, exactly for the connections performSlowloris left on a peek
\* error that is not a timeout or on a failed write, never for one left on
\* cancellation, on unexpected data or on the line bound; so closedByServer
\* never exceeds totalConns - activeConns.
C39_ClosedByServerCounts ==
  /\ [](slowStats.closedByServer <= slowStats.totalConns - slowStats.activeConns)
  /\ [][/\ \A w \in SlowWorkers :
             /\ (slow'[w].pc = "close" /\ slow[w].pc # "close")
                  => (slow'[w].closedByServer <=> (PeekFailed(w) \/ FailedWrite(w)))
             /\ (slow[w].pc = "close" /\ Stepped(w))
                  => /\ slow'[w].closedByServer = slow[w].closedByServer
                     /\ slow'[w].pc = IF slow[w].closedByServer THEN "count" ELSE "pause"
             /\ (slow[w].pc = "count" /\ Stepped(w))
                  => (slow'[w].pc = "pause" /\ slowStats'.closedByServer = slowStats.closedByServer + 1)
             /\ (slow'[w].pc = "count" /\ Stepped(w)) => slow[w].pc = "close"
        /\ slowStats'.closedByServer # slowStats.closedByServer
             => \E w \in SlowWorkers : slow[w].pc = "count" /\ slow[w].closedByServer /\ Stepped(w)]_vars

\* C39 witness: one connection was counted as closed by the server, and the
\* next one has just ended on a write that failed part-way: it is still
\* active and not counted yet
C39_Witness ==
  \E w \in SlowWorkers :
    /\ slow[w].pc = "close"
    /\ slow[w].closedByServer
    /\ Len(wire[w]) >= 1
    /\ wire[w][Len(wire[w])] # LineInOrder(w, Len(wire[w]))
    /\ slowStats.closedByServer = 1
    /\ slowStats.totalConns = 2
    /\ slowStats.activeConns = 1

\* the lines a worker at pc can still send once ctx is closed: one where it
\* is past the last test of ctx before a write (a dial or a write is next, or
\* the select of the loop may still take the elapsed delay), none elsewhere
LinesLeft(pc) ==
  IF pc \in {"dial", "active", "reqline", "host", "agent", "tickwait", "peek", "custom"} THEN 1 ELSE 0

\* the connections a worker at pc can still open once ctx is closed: one
\* where net.DialTimeout has been called, none elsewhere
DialsLeft(pc) == IF pc = "dial" THEN 1 ELSE 0

\* w puts bytes of a line on its connection in this step
SendsLine(w) == wire'[w] # wire[w] /\ wire'[w] # <<>>

\* net.DialTimeout returns a connection to w in this step
OpensConn(w) == slow[w].pc = "dial" /\ slow'[w].pc = "active"

\* C37: once the stop signal has fired, a worker sends at most one further
\* line and opens at most one further connection before it returns, whatever
\* step it is in: every step it takes with ctx closed uses up what its
\* position still allows, which is never more than one line and one dial.
C37_OneMoreLineOneMoreConn ==
  [][ctx = "closed" =>
       \A w \in SlowWorkers :
         /\ LinesLeft(slow'[w].pc) + (IF SendsLine(w) THEN 1 ELSE 0) <= LinesLeft(slow[w].pc)
         /\ DialsLeft(slow'[w].pc) + (IF OpensConn(w) THEN 1 ELSE 0) <= DialsLeft(slow[w].pc)
         /\ slow[w].pc = "done" => slow'[w] = slow[w]]_vars

\* C37 witness: a kept-open connection that had sent all the numbered
\* headers it sends while ctx is open was in the select of the loop when the
\* stop signal fired, took the elapsed delay, sent one more header, and the
\* worker has returned
C37_Witness ==
  \E w \in SlowWorkers :
    /\ cfg.KeepOpen
    /\ ctx = "closed"
    /\ slow[w].pc = "done"
    /\ slow[w].headerNum = HeaderBound + 1
    /\ slowStats.headersSent >= 4

====
